---- MODULE Spec2Model ----
(***************************************************************************)
(* Order tracker: CSV reconciliation service (src/src/services/            *)
(* csvService.ts) and the query layer of the top-level view                *)
(* (src/src/App.tsx).                                                      *)
(*                                                                         *)
(* Text is modelled as a sequence of one-character strings, so that        *)
(* lower-casing, trimming, splitting, pattern matching and formatting are  *)
(* computed character by character as the JavaScript code computes them.   *)
(***************************************************************************)
EXTENDS Integers, Sequences, FiniteSets, TLC

VARIABLES
    pc,                \* position of the operation under study
    header,            \* transformHeader: the raw header text
    normalized,        \* transformHeader(header)
    renormalized,      \* transformHeader(transformHeader(header))
    clock,             \* the local wall clock read by new Date()
    written,           \* the calendar fields estimatedDelivery was written from
    estimatedDelivery, \* determineStatus: its argument
    tag,               \* determineStatus: its result
    composed,          \* the parts recipientName was composed from
    recipientName,     \* parseDestination: its argument
    destinationParts,  \* parseDestination: its result
    ordersResponse,    \* loadTrackings: the fetched primary file
    additionalResponse,\* loadTrackings: the fetched supplemental file
    loaded,            \* loadTrackings: what the call resolves or rejects with
    trackings,         \* filterTrackings: the records it is given
    searchTerm,        \* filterTrackings: the search text
    statusFilter,      \* filterTrackings: the status set
    filteredTrackings, \* filterTrackings: its result
    timeZone,          \* minutes the local time zone is ahead of UTC
    sortColumn,        \* App state: the sort column, or null
    sortDirection,     \* App state: 'asc', 'desc' or null
    sortedTrackings,   \* sortTrackings(filteredTrackings, sortColumn, sortDirection)
    cycleColumn,       \* the column handleSort was last called with
    cycleClicks,       \* successive calls on cycleColumn since the unsorted state
    cycleFrom,         \* the sort column and direction handleSort was last called in
    itemsResponse,     \* loadPOItems: the fetched items file
    itemsLoaded,       \* what csvService.loadPOItems() settles with
    poItemsMap,        \* App state: the items of each PO number
    loading,           \* App state: a load is running
    error,             \* App state: the error message, or null
    requested,         \* number of loadTrackings() calls made so far
    inFlight,          \* the calls that await csvService.loadTrackings()
    shownAtStart,      \* per call, trackings when the call started
    settled,           \* the results of the finished calls, in finishing order
    itemsInFlight,     \* number of loadPOItems() calls of the App that await
    activePage,        \* App state: the page shown
    trackingsToShow,   \* the records of the page shown
    allItems,          \* filterItems: the items it is given
    itemSearchColumn,  \* App state: the column the item search looks in
    filteredItems      \* filterItems(allItems, searchTerm, itemSearchColumn)

vars == <<pc, header, normalized, renormalized,
          clock, written, estimatedDelivery, tag,
          composed, recipientName, destinationParts,
          ordersResponse, additionalResponse, loaded,
          trackings, searchTerm, statusFilter, filteredTrackings,
          timeZone, sortColumn, sortDirection, sortedTrackings,
          cycleColumn, cycleClicks, cycleFrom,
          itemsResponse, itemsLoaded, poItemsMap,
          loading, error, requested, inFlight, shownAtStart, settled,
          itemsInFlight,
          activePage, trackingsToShow, allItems, itemSearchColumn, filteredItems>>

headerVars == <<header, normalized, renormalized>>
statusVars == <<clock, written, estimatedDelivery, tag>>
destinationVars == <<composed, recipientName, destinationParts>>
loadVars == <<ordersResponse, additionalResponse, loaded>>
filterVars == <<trackings, searchTerm, statusFilter, filteredTrackings>>
sortVars == <<timeZone, sortColumn, sortDirection, sortedTrackings,
              cycleColumn, cycleClicks, cycleFrom>>
itemVars == <<itemsResponse, itemsLoaded, poItemsMap>>
appVars == <<loading, error, requested, inFlight, shownAtStart, settled,
             itemsInFlight>>

\* the variables of an operation that a specification does not exercise
HeaderIdle == header = <<>> /\ normalized = <<>> /\ renormalized = <<>>
StatusIdle ==
    clock = <<>> /\ written = <<>> /\ estimatedDelivery = <<>> /\ tag = <<>>
DestinationIdle ==
    composed = <<>> /\ recipientName = <<>> /\ destinationParts = <<>>
LoadIdle ==
    ordersResponse = <<>> /\ additionalResponse = <<>> /\ loaded = <<>>
FilterIdle ==
    /\ trackings = <<>> /\ searchTerm = <<>>
    /\ statusFilter = <<>> /\ filteredTrackings = <<>>
SortIdle ==
    /\ timeZone = 0 /\ sortColumn = "null" /\ sortDirection = "null"
    /\ sortedTrackings = <<>> /\ cycleColumn = "null" /\ cycleClicks = 0
    /\ cycleFrom = <<>>
ItemsIdle == itemsResponse = <<>> /\ itemsLoaded = <<>> /\ poItemsMap = <<>>
AppIdle ==
    /\ loading = FALSE /\ error = <<>> /\ requested = 0 /\ inFlight = {}
    /\ shownAtStart = <<>> /\ settled = <<>> /\ itemsInFlight = 0

\* the operations outside the reconciliation and filter engines
PageIdle ==
    /\ activePage = "tracking" /\ trackingsToShow = <<>>
    /\ allItems = <<>> /\ itemSearchColumn = "all" /\ filteredItems = <<>>
pageVars == <<activePage, trackingsToShow, allItems, itemSearchColumn, filteredItems>>

ViewIdle == SortIdle /\ ItemsIdle /\ AppIdle /\ PageIdle
viewVars == <<sortVars, itemVars, appVars, pageVars>>

(***************************************************************************)
(* Bounds of the model.                                                    *)
(***************************************************************************)
MaxHeaderLen == 5
MaxMonthField == 13    \* largest MM written into a date text
MaxDayField == 32      \* largest DD written into a date text
MaxPrimaryRows == 2        \* rows of the primary file
MaxSupplementalRows == 2   \* rows of the supplemental file
MaxFilterRows == 2           \* primary rows behind the records filtered
MaxSortRows == 4             \* primary rows behind the records sorted
MaxCycleRows == 2            \* primary rows behind the records shown while clicking
MaxItemRows == 3             \* rows of the items file
MaxMounts == 2               \* times the App is mounted (twice under React.StrictMode)
MaxSearchItems == 2          \* items handed to filterItems
MaxLoads == 2                \* calls of the App's loadTrackings

(***************************************************************************)
(* JavaScript string primitives.                                           *)
(***************************************************************************)
UpperLetters ==
    <<"A","B","C","D","E","F","G","H","I","J","K","L","M",
      "N","O","P","Q","R","S","T","U","V","W","X","Y","Z">>

LowerLetters ==
    <<"a","b","c","d","e","f","g","h","i","j","k","l","m",
      "n","o","p","q","r","s","t","u","v","w","x","y","z">>

Digits == <<"0","1","2","3","4","5","6","7","8","9">>

Range(s) == {s[i] : i \in DOMAIN s}

UpperSet == Range(UpperLetters)
LowerSet == Range(LowerLetters)
DigitSet == Range(Digits)

IsUpper(c) == c \in UpperSet
IsLower(c) == c \in LowerSet
IsDigit(c) == c \in DigitSet

\* \s of a regular expression and the characters String.prototype.trim strips
IsWhiteSpace(c) == c \in {" ", "\t"}

\* \w of a regular expression
IsWordChar(c) == IsUpper(c) \/ IsLower(c) \/ IsDigit(c) \/ c = "_"

\* the lower-case letter of each upper-case letter
LowerOf ==
    [c \in UpperSet |->
        LowerLetters[CHOOSE i \in DOMAIN UpperLetters : UpperLetters[i] = c]]

ToLowerChar(c) == IF IsUpper(c) THEN LowerOf[c] ELSE c

\* String.prototype.toLowerCase
toLowerCase(s) == [i \in DOMAIN s |-> ToLowerChar(s[i])]

\* String.prototype.trim
trim(s) ==
    LET keep == {i \in DOMAIN s : ~IsWhiteSpace(s[i])}
    IN  IF keep = {} THEN <<>>
        ELSE LET first == CHOOSE i \in keep : \A j \in keep : i <= j
                 last  == CHOOSE i \in keep : \A j \in keep : j <= i
             IN  SubSeq(s, first, last)

\* String.prototype.includes
includes(s, sub) ==
    \E i \in 0..(Len(s) - Len(sub)) : SubSeq(s, i + 1, i + Len(sub)) = sub

\* every text over the alphabet S of length at most n
TextsUpTo(S, n) == UNION {[1..k -> S] : k \in 0..n}

(***************************************************************************)
(* Tabular Source Reader: header normalization                             *)
(* header.trim().toLowerCase().replace(/\s+/g, '_').replace(/[()]/g, '')   *)
(***************************************************************************)
RECURSIVE CollapseFrom(_, _)
\* s.replace(/\s+/g, '_') from position i on: each maximal whitespace run
\* becomes one underscore
CollapseFrom(s, i) ==
    IF i > Len(s) THEN <<>>
    ELSE IF IsWhiteSpace(s[i])
         THEN IF i > 1 /\ IsWhiteSpace(s[i - 1])
              THEN CollapseFrom(s, i + 1)
              ELSE <<"_">> \o CollapseFrom(s, i + 1)
         ELSE <<s[i]>> \o CollapseFrom(s, i + 1)

replaceWhitespaceRuns(s) == CollapseFrom(s, 1)

\* s.replace(/[()]/g, '')
IsNotParen(c) == c \notin {"(", ")"}
removeParens(s) == SelectSeq(s, IsNotParen)

RECURSIVE CollapseFirstFrom(_, _, _)
\* s.replace(/\s+/, '_'): without the g flag only the first run is replaced
CollapseFirstFrom(s, i, done) ==
    IF i > Len(s) THEN <<>>
    ELSE IF IsWhiteSpace(s[i]) /\ ~done
         THEN IF i < Len(s) /\ IsWhiteSpace(s[i + 1])
              THEN CollapseFirstFrom(s, i + 1, FALSE)
              ELSE <<"_">> \o CollapseFirstFrom(s, i + 1, TRUE)
         ELSE <<s[i]>> \o CollapseFirstFrom(s, i + 1, done)

transformHeaderFirstRunOnly(h) ==
    removeParens(CollapseFirstFrom(toLowerCase(trim(h)), 1, FALSE))

transformHeader(h) ==
    removeParens(replaceWhitespaceRuns(toLowerCase(trim(h))))

HeaderChars == {"A", "b", " ", "(", ")", "_"}

InitHeader ==
    /\ pc = "header"
    /\ header \in TextsUpTo(HeaderChars, MaxHeaderLen)
    /\ normalized = <<>>
    /\ renormalized = <<>>
    /\ StatusIdle /\ DestinationIdle /\ LoadIdle /\ FilterIdle /\ ViewIdle

\* Papa.parse calls transformHeader on a column name of the file
TransformHeader ==
    /\ pc = "header"
    /\ normalized' = transformHeader(header)
    /\ pc' = "normalized"
    /\ UNCHANGED <<header, renormalized, statusVars, destinationVars, loadVars,
                   filterVars,
                   viewVars>>

\* transformHeader applied to its own output
TransformHeaderAgain ==
    /\ pc = "normalized"
    /\ renormalized' = transformHeader(normalized)
    /\ pc' = "renormalized"
    /\ UNCHANGED <<header, normalized, statusVars, destinationVars, loadVars,
                   filterVars,
                   viewVars>>

NextHeader == TransformHeader \/ TransformHeaderAgain

SpecHeader == InitHeader /\ [][NextHeader]_vars

\* C8: header normalization is idempotent: applying it to its own output
\* returns that output unchanged, for every header text.
C8_NormalizeIdempotent ==
    pc = "renormalized" => renormalized = normalized

\* a header with upper case, a whitespace run and a parenthesis, normalized
\* twice
C8_Witness ==
    /\ pc = "renormalized"
    /\ header = <<"A", " ", "(", "b">>
    /\ normalized = <<"a", "_", "b">>


(***************************************************************************)
(* JavaScript Date in the local time zone (no daylight-saving shift).      *)
(* A Date is <<t>>, t its time value in minutes of local time since the    *)
(* epoch; the invalid Date, whose time value is NaN, is <<>>.              *)
(***************************************************************************)
NaN == <<>>
MinutesPerDay == 24 * 60

\* the value of each decimal digit
ValueOf == [c \in DigitSet |-> (CHOOSE i \in DOMAIN Digits : Digits[i] = c) - 1]

DigitValue(c) == ValueOf[c]

RECURSIVE Number(_)
\* Number(text) of a text of decimal digits
Number(s) ==
    IF Len(s) = 0 THEN 0
    ELSE 10 * Number(SubSeq(s, 1, Len(s) - 1)) + DigitValue(s[Len(s)])

AllDigits(s, from, to) == \A i \in from..to : IsDigit(s[i])

IsLeapYear(y) == (y % 4 = 0 /\ y % 100 # 0) \/ y % 400 = 0

\* m is a month number 1..12
DaysInMonth(y, m) ==
    IF m = 2 THEN (IF IsLeapYear(y) THEN 29 ELSE 28)
    ELSE IF m \in {4, 6, 9, 11} THEN 30 ELSE 31

\* ECMAScript DayFromYear
DayFromYear(y) ==
    365 * (y - 1970) + ((y - 1969) \div 4) - ((y - 1901) \div 100)
        + ((y - 1601) \div 400)

RECURSIVE DaysBeforeMonth(_, _)
\* days of year y before its month with index m0 (0 = January)
DaysBeforeMonth(y, m0) ==
    IF m0 = 0 THEN 0 ELSE DaysBeforeMonth(y, m0 - 1) + DaysInMonth(y, m0)

\* ECMAScript MakeDay: month index and day of month may lie outside their
\* ranges and carry over into the neighbouring months and years
MakeDay(year, month0, date) ==
    LET ym == year + (month0 \div 12)
        mn == month0 % 12
    IN  DayFromYear(ym) + DaysBeforeMonth(ym, mn) + date - 1

\* new Date(year, monthIndex, day): local midnight; years 0..99 mean 1900..1999
LocalDate(year, month0, date) ==
    LET yr == IF 0 <= year /\ year <= 99 THEN 1900 + year ELSE year
    IN  <<MakeDay(yr, month0, date) * MinutesPerDay>>

\* the text has the shape YYYY-MM-DDTHH:mm of the ECMAScript date-time format
IsDateTimeText(s) ==
    /\ Len(s) = 16
    /\ AllDigits(s, 1, 4) /\ s[5] = "-" /\ AllDigits(s, 6, 7) /\ s[8] = "-"
    /\ AllDigits(s, 9, 10) /\ s[11] = "T" /\ AllDigits(s, 12, 13)
    /\ s[14] = ":" /\ AllDigits(s, 15, 16)

\* new Date(text) for a text that does not have the date-only shape:
\* a date-time without offset is local time, illegal element values and texts
\* without any number give NaN.  (Texts the engines parse differently are not
\* among the inputs.)
DateParse(s) ==
    IF IsDateTimeText(s)
    THEN LET y  == Number(SubSeq(s, 1, 4))
             m  == Number(SubSeq(s, 6, 7))
             d  == Number(SubSeq(s, 9, 10))
             h  == Number(SubSeq(s, 12, 13))
             mi == Number(SubSeq(s, 15, 16))
         IN  IF /\ 1 <= m /\ m <= 12
                /\ 1 <= d /\ d <= DaysInMonth(y, m)
                /\ h <= 23 /\ mi <= 59
             THEN <<MakeDay(y, m - 1, d) * MinutesPerDay + h * 60 + mi>>
             ELSE NaN
    ELSE NaN

\* date.setHours(0, 0, 0, 0)
setHoursZero(date) ==
    IF date = NaN THEN NaN
    ELSE <<(date[1] \div MinutesPerDay) * MinutesPerDay>>

\* new Date() when the local clock reads c
Now(c) ==
    <<MakeDay(c.year, c.month - 1, c.day) * MinutesPerDay + c.minute>>

\* trimmed.match(/^(\d{4})-(\d{2})-(\d{2})$/)
dateOnlyMatch(s) ==
    /\ Len(s) = 10
    /\ AllDigits(s, 1, 4) /\ s[5] = "-" /\ AllDigits(s, 6, 7) /\ s[8] = "-"
    /\ AllDigits(s, 9, 10)

(***************************************************************************)
(* Derived-Field Resolver: determineStatus                                 *)
(***************************************************************************)
\* the status tags determineStatus returns
InTransit == <<"i", "n", "_", "t", "r", "a", "n", "s", "i", "t">>
Delivered == <<"d", "e", "l", "i", "v", "e", "r", "e", "d">>
OutForDelivery == <<"o", "u", "t", "_", "f", "o", "r", "_", "d", "e", "l", "i", "v", "e", "r", "y">>

\* determineStatus with estDate.setHours(0, 0, 0, 0) left out
determineStatusNoTruncation(text, c) ==
    LET today == setHoursZero(Now(c))
    IN  IF text = <<>> THEN InTransit
        ELSE LET trimmed == trim(text)
                 estDate ==
                     IF dateOnlyMatch(trimmed)
                     THEN LocalDate(Number(SubSeq(trimmed, 1, 4)),
                                    Number(SubSeq(trimmed, 6, 7)) - 1,
                                    Number(SubSeq(trimmed, 9, 10)))
                     ELSE DateParse(trimmed)
             IN  IF estDate = NaN THEN InTransit
                 ELSE IF estDate[1] < today[1] THEN Delivered
                 ELSE IF estDate[1] = today[1] THEN OutForDelivery
                 ELSE InTransit

determineStatus(text, c) ==
    LET today == setHoursZero(Now(c))
    IN  IF text = <<>> THEN InTransit
        ELSE LET trimmed == trim(text)
                 parsed ==
                     IF dateOnlyMatch(trimmed)
                     THEN LocalDate(Number(SubSeq(trimmed, 1, 4)),
                                    Number(SubSeq(trimmed, 6, 7)) - 1,
                                    Number(SubSeq(trimmed, 9, 10)))
                     ELSE DateParse(trimmed)
                 estDate == setHoursZero(parsed)
             IN  IF estDate = NaN THEN InTransit
                 ELSE IF estDate[1] < today[1] THEN Delivered
                 ELSE IF estDate[1] = today[1] THEN OutForDelivery
                 ELSE InTransit

\* ---- the inputs of determineStatus ----
Pad2(n) == <<Digits[((n \div 10) % 10) + 1], Digits[(n % 10) + 1]>>
Pad4(n) == Pad2(n \div 100) \o Pad2(n % 100)

DateText(y, m, d) == Pad4(y) \o <<"-">> \o Pad2(m) \o <<"-">> \o Pad2(d)

\* the text written from the calendar fields w
WriteDate(w) ==
    LET body ==
            IF w.form = "date" THEN DateText(w.year, w.month, w.day)
            ELSE IF w.form = "datetime"
                 THEN DateText(w.year, w.month, w.day) \o <<"T">>
                      \o Pad2(w.hour) \o <<":", "0", "0">>
                 ELSE w.text
    IN  IF w.padded THEN <<" ">> \o body \o <<" ", "\t">> ELSE body

\* the fields name a day of the calendar
IsRealDate(y, m, d) ==
    /\ 1 <= m /\ m <= 12
    /\ 1 <= d /\ d <= DaysInMonth(y, m)

Years == {1999, 2000, 2001}
Hours == {0, 9, 23}

NoDateTexts ==
    { <<>>, <<" ">>,
      <<"n","o","t","-","a","-","d","a","t","e">>,
      <<"N","/","A">>, <<"T","B","D">> }

DateOnlyInputs ==
    [form : {"date"}, year : Years, month : 0..MaxMonthField,
     day : 0..MaxDayField, hour : {0}, text : {<<>>}, padded : BOOLEAN]

DateTimeInputs ==
    {w \in [form : {"datetime"}, year : Years, month : 1..12, day : 1..31,
            hour : Hours, text : {<<>>}, padded : {FALSE}] :
        IsRealDate(w.year, w.month, w.day)}

TextInputs ==
    [form : {"text"}, year : {0}, month : {0}, day : {0}, hour : {0},
     text : NoDateTexts, padded : {FALSE}]

ClockReadings ==
    { [year |-> 2000, month |-> 2,  day |-> 29, minute |-> 870],
      [year |-> 2000, month |-> 3,  day |-> 1,  minute |-> 0],
      [year |-> 2000, month |-> 12, day |-> 31, minute |-> 1439],
      [year |-> 2001, month |-> 1,  day |-> 1,  minute |-> 540] }

InitStatus ==
    /\ pc = "estimate"
    /\ clock \in ClockReadings
    /\ written \in DateOnlyInputs \cup DateTimeInputs \cup TextInputs
    /\ estimatedDelivery = WriteDate(written)
    /\ tag = <<>>
    /\ HeaderIdle /\ DestinationIdle /\ LoadIdle /\ FilterIdle /\ ViewIdle

DetermineStatus ==
    /\ pc = "estimate"
    /\ tag' = determineStatus(estimatedDelivery, clock)
    /\ pc' = "status"
    /\ UNCHANGED <<clock, written, estimatedDelivery, headerVars, destinationVars,
                   loadVars, filterVars,
                   viewVars>>

NextStatus == DetermineStatus

SpecStatus == InitStatus /\ [][NextStatus]_vars

\* calendar order of two days given by their year, month and day fields
DayBefore(a, b) ==
    \/ a.year < b.year
    \/ a.year = b.year /\ a.month < b.month
    \/ a.year = b.year /\ a.month = b.month /\ a.day < b.day

SameDay(a, b) == a.year = b.year /\ a.month = b.month /\ a.day = b.day

WrittenFromRealDate ==
    /\ written.form \in {"date", "datetime"}
    /\ IsRealDate(written.year, written.month, written.day)

\* C5: on a parseable estimated-delivery date determineStatus compares
\* calendar days only: a day before today gives delivered, today gives
\* out_for_delivery, a day after today gives in_transit.
C5_StatusByCalendarDay ==
    (pc = "status" /\ WrittenFromRealDate) =>
        /\ DayBefore(written, clock) <=> tag = Delivered
        /\ SameDay(written, clock) <=> tag = OutForDelivery
        /\ DayBefore(clock, written) <=> tag = InTransit

\* a date-time text of today, late in the day, while the clock reads the
\* afternoon: out for delivery
C5_Witness ==
    /\ pc = "status"
    /\ written.form = "datetime" /\ written.hour = 23
    /\ SameDay(written, clock) /\ clock.minute = 870
    /\ tag = OutForDelivery

\* C6: every input that is empty or does not denote a real date gives
\* in_transit.
C6_NoDateIsInTransit ==
    (pc = "status" /\ ~WrittenFromRealDate) => tag = InTransit


(***************************************************************************)
(* Derived-Field Resolver: parseDestination                                *)
(***************************************************************************)
RECURSIVE SplitFrom(_, _, _)
\* text.split(/[-,]/) from position i on, cur being the part read so far
SplitFrom(s, i, cur) ==
    IF i > Len(s) THEN <<cur>>
    ELSE IF s[i] \in {"-", ","}
         THEN <<cur>> \o SplitFrom(s, i + 1, <<>>)
         ELSE SplitFrom(s, i + 1, Append(cur, s[i]))

split(s) == SplitFrom(s, 1, <<>>)

\* positions where /\b([A-Z]{2})\b/ matches
StateMatches(s) ==
    {i \in 1..(Len(s) - 1) :
        /\ IsUpper(s[i]) /\ IsUpper(s[i + 1])
        /\ (i = 1 \/ ~IsWordChar(s[i - 1]))
        /\ (i + 1 = Len(s) \/ ~IsWordChar(s[i + 2]))}

\* p.match(/^[A-Z]{2}$/)
IsStateCode(p) == Len(p) = 2 /\ IsUpper(p[1]) /\ IsUpper(p[2])

\* the result {} is the empty record <<>>
parseDestination(recipientText) ==
    IF recipientText = <<>> THEN <<>>
    ELSE LET pieces == split(recipientText)
             parts == [i \in DOMAIN pieces |-> trim(pieces[i])]
             stateMatch == StateMatches(recipientText)
         IN  IF stateMatch # {} /\ Len(parts) >= 2
             THEN LET at == CHOOSE i \in stateMatch :
                               \A j \in stateMatch : i <= j
                      found == {i \in DOMAIN parts :
                                   ~IsStateCode(parts[i]) /\ Len(parts[i]) > 0}
                  IN  [city  |-> IF found = {} THEN <<>>
                                 ELSE parts[CHOOSE i \in found :
                                                \A j \in found : i <= j],
                       state |-> SubSeq(recipientText, at, at + 1)]
             ELSE <<>>

\* ---- the inputs of parseDestination ----
SiteNames ==
    { <<"A","c","m","e"," ","S","i","t","e">>,
      <<"D","o","c","k"," ","4">>,
      <<"L","a","b">>,
      <<"p","l","a","n","t","_","b">>,
      <<"N","o","r","t","h"," ","Y","a","r","d">> }

CityNames ==
    { <<"C","h","i","c","a","g","o">>,
      <<"R","e","n","o">>,
      <<"S","t"," ","P","a","u","l">>,
      <<"E","r","i","e">> }

StateCodes == { <<"I","L">>, <<"N","V">>, <<"M","N">> }

DestinationForms == {"site - city, ST", "city, ST", "site - city", "site", ""}

\* the recipient text composed from its parts
ComposeRecipient(c) ==
    IF c.form = "site - city, ST"
    THEN c.site \o <<" ", "-", " ">> \o c.city \o <<",", " ">> \o c.state
    ELSE IF c.form = "city, ST" THEN c.city \o <<",", " ">> \o c.state
    ELSE IF c.form = "site - city" THEN c.site \o <<" ", "-", " ">> \o c.city
    ELSE IF c.form = "site" THEN c.site
    ELSE <<>>

InitDestination ==
    /\ pc = "recipient"
    /\ composed \in [form : DestinationForms, site : SiteNames,
                     city : CityNames, state : StateCodes]
    /\ recipientName = ComposeRecipient(composed)
    /\ destinationParts = <<>>
    /\ HeaderIdle /\ StatusIdle /\ LoadIdle /\ FilterIdle /\ ViewIdle

ParseDestination ==
    /\ pc = "recipient"
    /\ destinationParts' = parseDestination(recipientName)
    /\ pc' = "destination"
    /\ UNCHANGED <<composed, recipientName, headerVars, statusVars, loadVars,
                   filterVars,
                   viewVars>>

NextDestination == ParseDestination

SpecDestination == InitDestination /\ [][NextDestination]_vars

\* C7: on a text of the form "<site> - <city>, <ST>" parseDestination returns
\* state = ST and city = <city>.
C7_SiteCityState ==
    (pc = "destination" /\ composed.form = "site - city, ST") =>
        destinationParts = [city |-> composed.city, state |-> composed.state]


(***************************************************************************)
(* Reconciliation Engine: CSVService.loadCSVFile, CSVService.loadTrackings *)
(*                                                                         *)
(* A row of a parsed file is a record from normalized column names to      *)
(* texts; a column the row lacks is absent from its domain (undefined).    *)
(***************************************************************************)
csvPath == "/TestCSVFile.csv"
additionalCsvPath == "/AdditionalOrderInfo.csv"
poItemsCsvPath == "/mock_po_items_100.csv"

\* row.key, undefined read as the empty text (both are falsy)
Get(row, key) == IF key \in DOMAIN row THEN row[key] ELSE <<>>

\* a || b on texts
Or(a, b) == IF a # <<>> THEN a ELSE b

\* loadCSVFile with the check of the path left out: a file that cannot be
\* fetched reads as empty, whichever it is
loadCSVFileAllOptional(path, response) ==
    IF ~response.ok
    THEN [resolved |-> TRUE, data |-> <<>>]
    ELSE IF response.parse = "error"
         THEN [resolved |-> FALSE, message |-> <<"Parse error">>]
         ELSE [resolved |-> TRUE, data |-> response.rows]

\* loadCSVFile(path) on the response of the fetch: [] for the missing
\* supplemental file, a rejection for another missing file; for a fetched
\* file the rows Papa.parse hands to complete (results.data; results.errors
\* is not read) or a rejection with what it hands to error
loadCSVFile(path, response) ==
    IF ~response.ok
    THEN IF path = additionalCsvPath
         THEN [resolved |-> TRUE, data |-> <<>>]
         ELSE [resolved |-> FALSE,
               message |-> <<"Failed to load CSV: ", response.statusText>>]
    ELSE IF response.parse = "error"
         THEN [resolved |-> FALSE, message |-> <<"Parse error">>]
         ELSE [resolved |-> TRUE, data |-> response.rows]

\* row.order_number || row.order_id || row.tracking_number || row.po_number || ''
additionalKey(row) ==
    Or(Or(Or(Get(row, "order_number"), Get(row, "order_id")),
          Get(row, "tracking_number")),
       Get(row, "po_number"))

\* Map.prototype.set
MapSet(map, key, value) ==
    [k \in DOMAIN map \cup {key} |-> IF k = key THEN value ELSE map[k]]

\* Map.prototype.get: <<value>>, or <<>> for undefined
MapGet(map, key) == IF key \in DOMAIN map THEN <<map[key]>> ELSE <<>>

RECURSIVE additionalDataMapKeepingFirst(_, _)
\* additionalDataMap filled without overwriting: the first row of a key stays
additionalDataMapKeepingFirst(additionalRows, n) ==
    IF n = 0 THEN <<>>
    ELSE LET before == additionalDataMapKeepingFirst(additionalRows, n - 1)
             key == additionalKey(additionalRows[n])
         IN  IF key # <<>> /\ toLowerCase(key) \notin DOMAIN before
             THEN MapSet(before, toLowerCase(key), additionalRows[n])
             ELSE before

RECURSIVE additionalDataMapOf(_, _)
\* additionalDataMap after the first n rows of additionalData.forEach
additionalDataMapOf(additionalRows, n) ==
    IF n = 0 THEN <<>>
    ELSE LET before == additionalDataMapOf(additionalRows, n - 1)
             key == additionalKey(additionalRows[n])
         IN  IF key # <<>>
             THEN MapSet(before, toLowerCase(key), additionalRows[n])
             ELSE before

\* a || b on the results of Map.get / array indexing
OrElse(a, b) == IF a # <<>> THEN a ELSE b

\* the supplemental match of the primary row at position i (index i - 1):
\* tracking number looked up before the order number
additionalInfoTrackingFirst(row, i, map, additionalRows) ==
    LET byIndex == IF i \in DOMAIN additionalRows
                   THEN <<additionalRows[i]>> ELSE << <<>> >>
    IN  OrElse(MapGet(map, toLowerCase(Get(row, "tracking_number"))),
        OrElse(MapGet(map, toLowerCase(Get(row, "order_number"))),
        OrElse(MapGet(map, toLowerCase(Get(row, "po_number"))),
               byIndex)))[1]

\* the supplemental match of the primary row at position i (index i - 1),
\* map being additionalDataMap
additionalInfoOf(row, i, map, additionalRows) ==
    LET byIndex == IF i \in DOMAIN additionalRows
                   THEN <<additionalRows[i]>> ELSE << <<>> >>
    IN  OrElse(MapGet(map, toLowerCase(Get(row, "order_number"))),
        OrElse(MapGet(map, toLowerCase(Get(row, "tracking_number"))),
        OrElse(MapGet(map, toLowerCase(Get(row, "po_number"))),
               byIndex)))[1]

RECURSIVE Decimal(_)
\* String(n) of a natural number
Decimal(n) ==
    IF n < 10 THEN <<Digits[n + 1]>>
    ELSE Decimal(n \div 10) \o <<Digits[(n % 10) + 1]>>

\* the city and state of a parseDestination result, '' when undefined
DestinationField(parts, key) == IF key \in DOMAIN parts THEN parts[key] ELSE <<>>

\* baseTracking as first built from the primary row at position i
baseTrackingOf(row, i, c) ==
    LET trackingNumber == Get(row, "tracking_number")
        estimated == Get(row, "estimated_delivery")
        shipDate == Or(Get(row, "ship_date"), Get(row, "email_date"))
        orderId == Get(row, "order_number")
        recipient == Or(Get(row, "recipient_site_name"), Get(row, "recipient"))
        destination == parseDestination(recipient)
    IN  [ id |-> Or(orderId, Or(Get(row, "po_number"),
                    <<"t", "r", "a", "c", "k", "i", "n", "g", "-">> \o Decimal(i - 1))),
          tracking_number |-> trackingNumber,
          slug |-> toLowerCase(Get(row, "carrier")),
          tag |-> determineStatus(estimated, c),
          title |-> Or(Get(row, "subject"),
                       trim(Get(row, "from_company") \o <<" ", "O", "r", "d", "e", "r", " ">> \o orderId)),
          order_id |-> orderId,
          po_number |-> Get(row, "po_number"),
          destination_city |-> DestinationField(destination, "city"),
          destination_state |-> DestinationField(destination, "state"),
          last_updated_at |-> Or(shipDate, Get(row, "email_date")),
          estimated_delivery |-> estimated,
          checkpoint_message |-> Or(Get(row, "body_preview"), Get(row, "subject")),
          checkpoint_location |-> recipient,
          checkpoint_date |-> Or(estimated, Or(shipDate, Get(row, "email_date"))),
          recipient_name |-> recipient,
          from_company |-> Get(row, "from_company") ]

\* the forEach over Object.keys(additionalInfo), copying every key
\* with a non-empty value, also one baseTracking already has
mergeOverwriting(base, additionalInfo) ==
    LET copied == {k \in DOMAIN additionalInfo : additionalInfo[k] # <<>>}
    IN  [k \in DOMAIN base \cup copied |->
            IF k \in copied THEN additionalInfo[k] ELSE base[k]]

\* the forEach over Object.keys(additionalInfo) without the test of the
\* value: every key baseTracking does not have is copied
mergeAlsoEmpty(base, additionalInfo) ==
    LET copied == {k \in DOMAIN additionalInfo : k \notin DOMAIN base}
    IN  [k \in DOMAIN base \cup copied |->
            IF k \in copied THEN additionalInfo[k] ELSE base[k]]

\* the forEach over Object.keys(additionalInfo): a key is copied when
\* baseTracking has no such property and its value is truthy
mergeAdditional(base, additionalInfo) ==
    LET copied == {k \in DOMAIN additionalInfo :
                      k \notin DOMAIN base /\ additionalInfo[k] # <<>>}
    IN  [k \in DOMAIN base \cup copied |->
            IF k \in copied THEN additionalInfo[k] ELSE base[k]]

\* the filter predicate with the trim() left out
hasTrackingNumberNoTrim(tracking) ==
    tracking.tracking_number # <<>>

\* tracking.tracking_number && tracking.tracking_number.trim() !== ''
hasTrackingNumber(tracking) ==
    tracking.tracking_number # <<>> /\ trim(tracking.tracking_number) # <<>>

RECURSIVE Filter(_, _)
\* Array.prototype.filter, keep being the positions that pass the test
Filter(s, keep) ==
    IF s = <<>> THEN <<>>
    ELSE (IF 1 \in keep THEN <<Head(s)>> ELSE <<>>)
         \o Filter(Tail(s), {k - 1 : k \in keep \ {1}})

\* ordersData.map(...).filter(...) keeping only the records that took a
\* field of a supplemental row
reconcileMatchedOnly(orderRows, additionalRows, c) ==
    LET additionalDataMap ==
            additionalDataMapOf(additionalRows, Len(additionalRows))
        mapped == [i \in DOMAIN orderRows |->
                      mergeAdditional(
                          baseTrackingOf(orderRows[i], i, c),
                          additionalInfoOf(orderRows[i], i, additionalDataMap,
                                           additionalRows))]
    IN  Filter(mapped, {i \in DOMAIN mapped :
                          /\ hasTrackingNumber(mapped[i])
                          /\ DOMAIN mapped[i] # DOMAIN baseTrackingOf(orderRows[i], i, c)})

\* ordersData.map(...).filter(...)
reconcile(orderRows, additionalRows, c) ==
    LET additionalDataMap ==
            additionalDataMapOf(additionalRows, Len(additionalRows))
        mapped == [i \in DOMAIN orderRows |->
                      mergeAdditional(
                          baseTrackingOf(orderRows[i], i, c),
                          additionalInfoOf(orderRows[i], i, additionalDataMap,
                                           additionalRows))]
    IN  Filter(mapped, {i \in DOMAIN mapped : hasTrackingNumber(mapped[i])})

\* csvService.loadTrackings(): the records, or the error it throws
loadTrackings(primaryFile, additionalFile, c) ==
    LET orders == loadCSVFile(csvPath, primaryFile)
        additional == loadCSVFile(additionalCsvPath, additionalFile)
        \* .catch(() => []) on the supplemental promise
        additionalData == IF additional.resolved THEN additional.data ELSE <<>>
    IN  IF ~orders.resolved
        THEN [ok |-> FALSE,
              message |-> <<"Failed to load CSV file: ">> \o orders.message]
        ELSE [ok |-> TRUE,
              data |-> reconcile(orders.data, additionalData, c)]

\* ---- the files of a load ----
PrimaryRows ==
    { [ order_number |-> <<"A", "1">>,
        tracking_number |-> <<"T", "1">>,
        carrier |-> <<"U", "P", "S">>,
        subject |-> <<"S", "e", "n", "t">>,
        estimated_delivery |-> <<"2", "0", "0", "0", "-", "0", "2", "-", "0", "1">>,
        ship_date |-> <<"2", "0", "0", "0", "-", "0", "1", "-", "2", "0">>,
        recipient_site_name |-> <<"L", "a", "b", " ", "-", " ", "R", "e", "n", "o", ",", " ", "N", "V">> ],
      [ tracking_number |-> <<"T", "1">>, po_number |-> <<"P", "1">>,
        from_company |-> <<"A", "c", "m", "e">>,
        estimated_delivery |-> <<"2", "0", "0", "0", "-", "0", "3", "-", "0", "1">>,
        email_date |-> <<"2", "0", "0", "0", "-", "0", "2", "-", "2", "7", "T", "0", "9", ":", "0", "0">>,
        recipient |-> <<"E", "r", "i", "e", ",", " ", "P", "A">> ],
      [ tracking_number |-> <<" ">>, po_number |-> <<"P", "1">> ],
      [ tracking_number |-> <<"U", "2">>,
        carrier |-> <<"F", "e", "d", "E", "x">>,
        body_preview |-> <<"O", "n", " ", "i", "t", "s", " ", "w", "a", "y">>,
        estimated_delivery |-> <<"2", "0", "0", "0", "-", "0", "4", "-", "0", "5">> ],
      [ order_number |-> <<"A", "1">>,
        tracking_number |-> <<"U", "2">>, po_number |-> <<"P", "1">>,
        estimated_delivery |-> <<"s", "o", "o", "n">> ],
      [ order_number |-> <<"B", "2">>,
        subject |-> <<"S", "e", "n", "t">> ] }

SupplementalRows ==
    { [ order_number |-> <<"a", "1">>,
        title |-> <<"E", "x", "t", "r", "a">>,
        notes |-> <<"r", "u", "s", "h">> ],
      [ tracking_number |-> <<"T", "1">>, po_number |-> <<"Z", "9">>,
        notes |-> <<"h", "o", "l", "d">> ],
      [ po_number |-> <<"p", "1">>,
        title |-> <<"O", "t", "h", "e", "r">>,
        buyer |-> <<"K", "i", "m">> ],
      [ order_id |-> <<"U", "2">>, notes |-> <<"g", "i", "f", "t">>,
        buyer |-> <<>> ],
      [ notes |-> <<"s", "p", "a", "r", "e">>,
        tag |-> <<"p", "e", "n", "d", "i", "n", "g">>,
        id |-> <<"x", "9">> ],
      [ order_number |-> <<"A", "1">>,
        tracking_number |-> <<"T", "1">>,
        notes |-> <<"l", "a", "t", "e">> ] }

RowLists(rows, n) == UNION {[1..k -> rows] : k \in 0..n}

\* the files a fetch can bring: a well-formed file, no file (404), and a
\* malformed file, of which Papa.parse reports the rows it made out and its
\* errors to complete, or the error to error
Responses(rows, n) ==
    [ok : {TRUE}, statusText : {"OK"}, malformed : {FALSE},
     parse : {"complete"}, rows : RowLists(rows, n)]
    \cup [ok : {FALSE}, statusText : {"Not Found"}, malformed : {FALSE},
          parse : {"complete"}, rows : {<<>>}]
    \cup [ok : {TRUE}, statusText : {"OK"}, malformed : {TRUE},
          parse : {"complete"}, rows : RowLists(rows, 1)]
    \cup [ok : {TRUE}, statusText : {"OK"}, malformed : {TRUE},
          parse : {"error"}, rows : {<<>>}]

LoadClock == [year |-> 2000, month |-> 3, day |-> 1, minute |-> 0]

Init ==
    /\ pc = "fetched"
    /\ clock = LoadClock
    /\ ordersResponse \in Responses(PrimaryRows, MaxPrimaryRows)
    /\ additionalResponse \in Responses(SupplementalRows, MaxSupplementalRows)
    /\ loaded = <<>>
    /\ written = <<>> /\ estimatedDelivery = <<>> /\ tag = <<>>
    /\ HeaderIdle /\ DestinationIdle /\ FilterIdle /\ ViewIdle

\* csvService.loadTrackings() from the two fetched files to its result
LoadTrackings ==
    /\ pc = "fetched"
    /\ loaded' = loadTrackings(ordersResponse, additionalResponse, clock)
    /\ pc' = "loaded"
    /\ UNCHANGED <<clock, written, estimatedDelivery, tag, ordersResponse,
                   additionalResponse, headerVars, destinationVars, filterVars,
                   viewVars>>

Next == LoadTrackings

Spec == Init /\ [][Next]_vars


\* ---- what a finished load is checked against ----
BaseFields ==
    {"id", "tracking_number", "slug", "tag", "title", "order_id", "po_number",
     "destination_city", "destination_state", "last_updated_at",
     "estimated_delivery", "checkpoint_message", "checkpoint_location",
     "checkpoint_date", "recipient_name", "from_company"}

LoadSucceeded == pc = "loaded" /\ loaded.ok

\* the rows of the two files as loadTrackings read them
OrderRows == ordersResponse.rows
AdditionalRows == additionalResponse.rows

\* a text with at least one character that is not whitespace
NonBlank(text) == \E i \in DOMAIN text : ~IsWhiteSpace(text[i])

\* positions of the primary rows with a non-blank tracking number
KeptRows == {i \in DOMAIN OrderRows : NonBlank(Get(OrderRows[i], "tracking_number"))}

\* the returned record built from the primary row at position i of KeptRows:
\* the records come in primary order
RecordOf(i) == loaded.data[Cardinality({j \in KeptRows : j <= i})]

\* the fields of a record that are not named base fields
ExtensionOf(record) ==
    [k \in DOMAIN record \ BaseFields |-> record[k]]

\* what a supplemental row contributes: its non-empty values under keys that
\* are not named base fields
ContributionOf(row) ==
    [k \in {k \in DOMAIN row : k \notin BaseFields /\ row[k] # <<>>} |-> row[k]]

Lookup == additionalDataMapOf(AdditionalRows, Len(AdditionalRows))
OrderKey(i) == toLowerCase(Get(OrderRows[i], "order_number"))
TrackingKey(i) == toLowerCase(Get(OrderRows[i], "tracking_number"))
PoKey(i) == toLowerCase(Get(OrderRows[i], "po_number"))

\* the match the precedence rule names for the primary row at position i,
\* given the lookup
FirstHit(i, lookup) ==
    IF OrderKey(i) \in DOMAIN lookup THEN lookup[OrderKey(i)]
    ELSE IF TrackingKey(i) \in DOMAIN lookup THEN lookup[TrackingKey(i)]
    ELSE IF PoKey(i) \in DOMAIN lookup THEN lookup[PoKey(i)]
    ELSE IF i \in DOMAIN AdditionalRows THEN AdditionalRows[i]
    ELSE <<>>

HitsTwoEntries(i, lookup) ==
    /\ OrderKey(i) \in DOMAIN lookup
    /\ TrackingKey(i) \in DOMAIN lookup
    /\ lookup[OrderKey(i)] # lookup[TrackingKey(i)]

\* C1: the supplemental match of a primary row is the first hit among lookup
\* by order number, by tracking number, by PO number, the supplemental row at
\* the same index, else an empty match; when order number and tracking number
\* hit two different entries, the one found by order number is merged.
C1_JoinPrecedence ==
    LoadSucceeded =>
        LET lookup == Lookup
            kept == KeptRows
        IN  \A i \in kept :
                LET extension ==
                        ExtensionOf(loaded.data[Cardinality({j \in kept : j <= i})])
                IN  /\ Len(loaded.data) = Cardinality(kept)
                    /\ extension = ContributionOf(FirstHit(i, lookup))
                    /\ HitsTwoEntries(i, lookup) =>
                           extension = ContributionOf(lookup[OrderKey(i)])

\* a primary row whose order number and tracking number hit two entries with
\* different contributions
C1_Witness ==
    /\ LoadSucceeded
    /\ \E i \in KeptRows :
          /\ HitsTwoEntries(i, Lookup)
          /\ ContributionOf(Lookup[OrderKey(i)])
                 # ContributionOf(Lookup[TrackingKey(i)])
          /\ ExtensionOf(RecordOf(i)) = ContributionOf(Lookup[OrderKey(i)])

\* C2: every named base field of a returned record has the value computed
\* from the primary row, whatever the matched supplemental row holds under
\* the same key, also when the base value is the empty text.
C2_BaseFieldsWin ==
    LoadSucceeded =>
        LET kept == KeptRows
        IN  \A i \in kept :
                LET record == loaded.data[Cardinality({j \in kept : j <= i})]
                    base == baseTrackingOf(OrderRows[i], i, clock)
                IN  \A f \in BaseFields :
                        f \in DOMAIN record /\ record[f] = base[f]

\* a record whose PO number is empty although its supplemental match holds a
\* PO number, and a record whose match holds a title it does not show
C2_Witness ==
    /\ LoadSucceeded
    /\ \E i \in KeptRows :
          /\ Get(FirstHit(i, Lookup), "po_number") # <<>>
          /\ RecordOf(i).po_number = <<>>
    /\ \E i \in KeptRows :
          /\ Get(FirstHit(i, Lookup), "title") # <<>>
          /\ RecordOf(i).title # Get(FirstHit(i, Lookup), "title")

\* C3: every returned record has a tracking number that is neither empty nor
\* whitespace-only.
C3_TrackingNumberNonBlank ==
    LoadSucceeded =>
        \A n \in DOMAIN loaded.data :
            /\ loaded.data[n].tracking_number # <<>>
            /\ NonBlank(loaded.data[n].tracking_number)

\* a load that dropped a row with a whitespace-only tracking number and
\* kept another row
C3_Witness ==
    /\ LoadSucceeded
    /\ \E i \in DOMAIN OrderRows :
          /\ Get(OrderRows[i], "tracking_number") # <<>>
          /\ ~NonBlank(Get(OrderRows[i], "tracking_number"))
    /\ Len(loaded.data) = 1

\* C4: no two records returned by one load have the same id.
C4_IdsUnique ==
    LoadSucceeded =>
        \A m, n \in DOMAIN loaded.data :
            m # n => loaded.data[m].id # loaded.data[n].id


(***************************************************************************)
(* Query Engine: formatDate and filterTrackings                            *)
(***************************************************************************)
\* the upper-case letter of each lower-case letter
UpperOf ==
    [c \in LowerSet |->
        UpperLetters[CHOOSE i \in DOMAIN LowerLetters : LowerLetters[i] = c]]

\* String.prototype.toUpperCase (how a user may type a value)
toUpperCase(s) == [i \in DOMAIN s |-> IF IsLower(s[i]) THEN UpperOf[s[i]] ELSE s[i]]

MonthShort ==
    << <<"J", "a", "n">>,
       <<"F", "e", "b">>,
       <<"M", "a", "r">>,
       <<"A", "p", "r">>,
       <<"M", "a", "y">>,
       <<"J", "u", "n">>,
       <<"J", "u", "l">>,
       <<"A", "u", "g">>,
       <<"S", "e", "p">>,
       <<"O", "c", "t">>,
       <<"N", "o", "v">>,
       <<"D", "e", "c">> >>

\* the year, month (1..12) and day of month of the local day number day
CivilOfDay(day) ==
    LET est == 1970 + (day \div 365)
        y == CHOOSE y \in (est - 1)..(est + 1) :
                 DayFromYear(y) <= day /\ day < DayFromYear(y + 1)
        inYear == day - DayFromYear(y)
        m == CHOOSE m \in 1..12 :
                 /\ DaysBeforeMonth(y, m - 1) <= inYear
                 /\ inYear < DaysBeforeMonth(y, m - 1) + DaysInMonth(y, m)
    IN  [year |-> y, month |-> m, day |-> inYear - DaysBeforeMonth(y, m - 1) + 1]

\* date.toLocaleDateString('en-US', {year: 'numeric', month: 'short',
\* day: 'numeric'}), e.g. Nov 13, 2025
toLocaleDateString(date) ==
    LET civil == CivilOfDay(date[1] \div MinutesPerDay)
    IN  MonthShort[civil.month] \o <<" ">> \o Decimal(civil.day)
        \o <<",", " ">> \o Decimal(civil.year)

\* date.toLocaleString('en-US', {..., hour: '2-digit', minute: '2-digit'}),
\* e.g. Nov 13, 2025, 09:05 AM
toLocaleString(date) ==
    LET minutes == date[1] % MinutesPerDay
        hour == minutes \div 60
        hour12 == IF hour % 12 = 0 THEN 12 ELSE hour % 12
    IN  toLocaleDateString(date) \o <<",", " ">> \o Pad2(hour12) \o <<":">>
        \o Pad2(minutes % 60) \o <<" ">>
        \o (IF hour < 12 THEN <<"A", "M">> ELSE <<"P", "M">>)

NotAvailable == <<"N", "/", "A">>

formatDate(dateString) ==
    IF dateString = <<>> THEN NotAvailable
    ELSE LET trimmed == trim(dateString)
         IN  IF trimmed = <<>> THEN NotAvailable
             ELSE IF dateOnlyMatch(trimmed)
                  THEN toLocaleDateString(
                           LocalDate(Number(SubSeq(trimmed, 1, 4)),
                                     Number(SubSeq(trimmed, 6, 7)) - 1,
                                     Number(SubSeq(trimmed, 9, 10))))
                  ELSE LET date == DateParse(trimmed)
                       IN  IF date = NaN THEN dateString
                           ELSE toLocaleString(date)

\* the keys filterTrackings does not read dynamically
SearchExcludedKeys ==
    {"id", "tracking_number", "order_id", "po_number", "from_company",
     "recipient_name", "destination_city", "destination_state", "slug",
     "tag", "title", "checkpoint_message", "checkpoint_location",
     "last_updated_at", "estimated_delivery", "checkpoint_date"}

\* allFieldValues.filter(Boolean).map(field => String(field).toLowerCase())
searchableFields(tracking) ==
    LET standard ==
            { tracking.tracking_number, tracking.order_id, tracking.po_number,
              tracking.from_company, tracking.recipient_name,
              tracking.destination_city, tracking.destination_state,
              tracking.slug, tracking.tag, tracking.title,
              tracking.checkpoint_message, tracking.checkpoint_location,
              formatDate(tracking.last_updated_at),
              formatDate(tracking.estimated_delivery),
              formatDate(tracking.checkpoint_date) }
        dynamic ==
            { tracking[key] : key \in
                {k \in DOMAIN tracking \ SearchExcludedKeys : tracking[k] # <<>>} }
    IN  {toLowerCase(field) : field \in (standard \cup dynamic) \ {<<>>}}

\* Array.prototype.includes on a sequence
Contains(seq, x) == \E i \in DOMAIN seq : seq[i] = x

\* filterTrackings comparing the fields with the search text as typed
filterTrackingsCaseSensitive(records, search, statuses) ==
    LET byStatus ==
            IF Len(statuses) > 0
            THEN Filter(records, {i \in DOMAIN records :
                                     Contains(statuses, records[i].tag)})
            ELSE records
    IN  IF trim(search) # <<>>
        THEN LET searchLower == trim(search)
             IN  Filter(byStatus,
                        {i \in DOMAIN byStatus :
                            \E field \in searchableFields(byStatus[i]) :
                                includes(field, searchLower)})
        ELSE byStatus

\* filterTrackings with the status step left out
filterTrackingsAnyStatus(records, search, statuses) ==
    IF trim(search) # <<>>
    THEN LET searchLower == trim(toLowerCase(search))
         IN  Filter(records,
                    {i \in DOMAIN records :
                        \E field \in searchableFields(records[i]) :
                            includes(field, searchLower)})
    ELSE records

filterTrackings(records, search, statuses) ==
    LET byStatus ==
            IF Len(statuses) > 0
            THEN Filter(records, {i \in DOMAIN records :
                                     Contains(statuses, records[i].tag)})
            ELSE records
    IN  IF trim(search) # <<>>
        THEN LET searchLower == trim(toLowerCase(search))
             IN  Filter(byStatus,
                        {i \in DOMAIN byStatus :
                            \E field \in searchableFields(byStatus[i]) :
                                includes(field, searchLower)})
        ELSE byStatus

\* ---- the inputs of filterTrackings ----
\* the supplemental file of the loads whose records are filtered
FilterSupplementalRows ==
    << [ order_number |-> <<"a", "1">>, title |-> <<"E", "x", "t", "r", "a">>, notes |-> <<"R", "u", "s", "h", " ", "7">> ],
       [ order_id |-> <<"U", "2">>, buyer |-> <<"K", "i", "m">> ] >>

LoadedRecordSets ==
    { reconcile(orders, FilterSupplementalRows, LoadClock) :
        orders \in RowLists(PrimaryRows, MaxFilterRows) }

\* texts a user may type: the value of a field of a held record as it is,
\* in upper case or in lower case, and a few other texts
TypedTexts(records) ==
    UNION { UNION { {records[i][k], toUpperCase(records[i][k]),
                     toLowerCase(records[i][k])} :
                    k \in DOMAIN records[i] } : i \in DOMAIN records }
    \cup { <<" ">>, <<"n", "/", "a">>, <<"N", "/", "A">>, <<"z", "z">> }

\* status sets handed to filterTrackings
StatusSets == { <<>>, <<InTransit>>, <<OutForDelivery, Delivered>> }

InitFilter ==
    /\ pc = "query"
    /\ trackings \in LoadedRecordSets
    /\ searchTerm \in TypedTexts(trackings)
    /\ statusFilter \in StatusSets
    /\ filteredTrackings = <<>>
    /\ HeaderIdle /\ StatusIdle /\ DestinationIdle /\ LoadIdle /\ ViewIdle

\* filterTrackings(trackings, searchTerm, statusFilter) of a render
FilterTrackings ==
    /\ pc = "query"
    /\ filteredTrackings' = filterTrackings(trackings, searchTerm, statusFilter)
    /\ pc' = "filtered"
    /\ UNCHANGED <<trackings, searchTerm, statusFilter,
                   headerVars, statusVars, destinationVars, loadVars,
                   viewVars>>

NextFilter == FilterTrackings

SpecFilter == InitFilter /\ [][NextFilter]_vars


\* ---- what a filtered set is checked against ----
Kept(record) == \E n \in DOMAIN filteredTrackings : filteredTrackings[n] = record

\* the search text is the value in some letter case
SameLetters(text, value) == toLowerCase(text) = toLowerCase(value)

DateFields == {"last_updated_at", "estimated_delivery", "checkpoint_date"}

\* C9 as stated: searching for the exact value, in any letter case, of any
\* non-empty field of a record (id and the date fields included) returns a
\* set that contains the record.
C9_SearchRoundTripAnyField ==
    (pc = "filtered" /\ statusFilter = <<>>) =>
        \A i \in DOMAIN trackings :
            \A k \in DOMAIN trackings[i] :
                (trackings[i][k] # <<>> /\ SameLetters(searchTerm, trackings[i][k]))
                    => Kept(trackings[i])

\* C9 (amended): searching for the exact value, in any letter case, of a
\* non-empty field other than id and the three date fields returns a set
\* that contains the record.
C9_SearchRoundTrip ==
    (pc = "filtered" /\ statusFilter = <<>>) =>
        \A i \in DOMAIN trackings :
            \A k \in DOMAIN trackings[i] \ ({"id"} \cup DateFields) :
                (trackings[i][k] # <<>> /\ SameLetters(searchTerm, trackings[i][k]))
                    => Kept(trackings[i])

\* the value of an extension field typed in upper case finds its record
C9_Witness ==
    /\ pc = "filtered" /\ statusFilter = <<>>
    /\ \E i \in DOMAIN trackings :
          /\ "notes" \in DOMAIN trackings[i]
          /\ searchTerm = toUpperCase(trackings[i].notes)
          /\ searchTerm # trackings[i].notes
          /\ Kept(trackings[i])
          /\ Len(filteredTrackings) < Len(trackings)

\* C10: a record is kept by a non-blank search only if the search text is a
\* substring of the content (the value, or for a date field the text it is
\* shown as) of one of its non-empty fields.
C10_EmptyFieldNeverMatches ==
    (pc = "filtered" /\ trim(searchTerm) # <<>>) =>
        LET needle == trim(toLowerCase(searchTerm))
        IN  \A n \in DOMAIN filteredTrackings :
                LET record == filteredTrackings[n]
                IN  \E k \in DOMAIN record :
                        /\ record[k] # <<>>
                        /\ \/ includes(toLowerCase(record[k]), needle)
                           \/ /\ k \in DateFields
                              /\ includes(toLowerCase(formatDate(record[k])), needle)


\* positions of the records whose tag is one of the statuses
TagPositions == {i \in DOMAIN trackings : Contains(statusFilter, trackings[i].tag)}

\* the positions p of a sequence in ascending order
RECURSIVE Ascending(_)
Ascending(p) ==
    IF p = {} THEN <<>>
    ELSE LET least == CHOOSE i \in p : \A j \in p : i <= j
         IN  <<least>> \o Ascending(p \ {least})

\* C11: with a blank search text, filterTrackings with a non-empty status
\* set returns exactly the records whose tag is a member of the set, in
\* input order, and with an empty status set it returns every record; under
\* a search text too, every record returned has its tag in a non-empty set.
C11_StatusStep ==
    pc = "filtered" =>
        /\ (statusFilter # <<>> /\ trim(searchTerm) = <<>>) =>
              LET kept == Ascending(TagPositions)
              IN  /\ Len(filteredTrackings) = Len(kept)
                  /\ \A n \in DOMAIN kept : filteredTrackings[n] = trackings[kept[n]]
        /\ (statusFilter = <<>> /\ trim(searchTerm) = <<>>) =>
              filteredTrackings = trackings
        /\ statusFilter # <<>> =>
              \A n \in DOMAIN filteredTrackings :
                  Contains(statusFilter, filteredTrackings[n].tag)

\* a two-status set keeps the second of two records and drops the first
C11_Witness ==
    /\ pc = "filtered" /\ trim(searchTerm) = <<>>
    /\ Len(statusFilter) = 2 /\ Len(trackings) = 2
    /\ filteredTrackings = <<trackings[2]>>
    /\ trackings[1] # trackings[2]


(***************************************************************************)
(* Query Engine: sortTrackings and handleSort                              *)
(***************************************************************************)
null == "null"

SortColumns ==
    {"tracking_number", "order_id", "po_number", "from_company",
     "recipient_name", "carrier", "status", "ship_date", "estimated_delivery"}

\* the characters of the texts compared, in the order of the root collation:
\* white space, punctuation, digits, letters
CollationOrder == <<" ", "_", "-", ",", ":", "/">> \o Digits \o LowerLetters

\* the primary weight of each character: letters weigh the same in both cases
PrimaryWeight ==
    [c \in Range(CollationOrder) |->
        CHOOSE i \in DOMAIN CollationOrder : CollationOrder[i] = c]

\* lexicographic comparison of two sequences of numbers: -1, 0 or 1
CompareWeights(x, y) ==
    LET differ == {i \in DOMAIN x \cap DOMAIN y : x[i] # y[i]}
    IN  IF differ = {}
        THEN (IF Len(x) < Len(y) THEN -1 ELSE IF Len(x) > Len(y) THEN 1 ELSE 0)
        ELSE LET first == CHOOSE i \in differ : \A j \in differ : i <= j
             IN  IF x[first] < y[first] THEN -1 ELSE 1

\* String.prototype.localeCompare under the root collation: the texts are
\* compared by their letters first and, these being equal, by letter case,
\* a lower-case letter before its upper-case letter
localeCompare(a, b) ==
    LET primary(s) == [i \in DOMAIN s |-> PrimaryWeight[ToLowerChar(s[i])]]
        tertiary(s) == [i \in DOMAIN s |-> IF IsUpper(s[i]) THEN 1 ELSE 0]
        byLetters == CompareWeights(primary(a), primary(b))
    IN  IF byLetters # 0 THEN byLetters
        ELSE CompareWeights(tertiary(a), tertiary(b))

\* new Date(text).getTime(), in minutes since the epoch: a date-only text is
\* read as UTC, a date-time text without offset as local time, zone minutes
\* ahead of UTC; any other text gives NaN
getTime(text, zone) ==
    IF dateOnlyMatch(text)
    THEN LET y == Number(SubSeq(text, 1, 4))
             m == Number(SubSeq(text, 6, 7))
             d == Number(SubSeq(text, 9, 10))
         IN  IF IsRealDate(y, m, d)
             THEN <<MakeDay(y, m - 1, d) * MinutesPerDay>>
             ELSE NaN
    ELSE LET local == DateParse(text)
         IN  IF local = NaN THEN NaN ELSE <<local[1] - zone>>

\* text ? new Date(text).getTime() : 0
dateValue(text, zone) == IF text # <<>> THEN getTime(text, zone) ELSE <<0>>

\* aValue (bValue) of the comparator: a text, or a number as <<t>> or NaN
sortValue(tracking, column, zone) ==
    CASE column = "tracking_number" -> [string |-> TRUE, value |-> tracking.tracking_number]
      [] column = "order_id" -> [string |-> TRUE, value |-> tracking.order_id]
      [] column = "po_number" -> [string |-> TRUE, value |-> tracking.po_number]
      [] column = "from_company" -> [string |-> TRUE, value |-> tracking.from_company]
      [] column = "recipient_name" -> [string |-> TRUE, value |-> tracking.recipient_name]
      [] column = "carrier" -> [string |-> TRUE, value |-> tracking.slug]
      [] column = "status" -> [string |-> TRUE, value |-> tracking.tag]
      [] column = "ship_date" ->
            [string |-> FALSE, value |-> dateValue(tracking.last_updated_at, zone)]
      [] column = "estimated_delivery" ->
            [string |-> FALSE, value |-> dateValue(tracking.estimated_delivery, zone)]

\* the comparator handed to Array.prototype.sort: a number, NaN when one
\* of two timestamps is NaN
comparator(a, b, column, direction, zone) ==
    LET aValue == sortValue(a, column, zone)
        bValue == sortValue(b, column, zone)
    IN  IF aValue.string
        THEN <<IF direction = "asc"
               THEN localeCompare(aValue.value, bValue.value)
               ELSE localeCompare(bValue.value, aValue.value)>>
        ELSE IF aValue.value = NaN \/ bValue.value = NaN THEN NaN
             ELSE <<IF direction = "asc"
                    THEN aValue.value[1] - bValue.value[1]
                    ELSE bValue.value[1] - aValue.value[1]>>

\* SortCompare of Array.prototype.sort: a NaN result counts as +0
SortCompare(a, b, column, direction, zone) ==
    LET v == comparator(a, b, column, direction, zone)
    IN  IF v = NaN THEN 0 ELSE v[1]


RECURSIVE Tabulate(_, _)
\* the array <<f[1], ..., f[n]>> of the values of f
Tabulate(f, n) == IF n = 0 THEN <<>> ELSE Tabulate(f, n - 1) \o <<f[n]>>

\* SortCompare of every two of the records, by their positions
comparisons(records, column, direction, zone) ==
    LET n == Len(records)
    IN  Tabulate([i \in 1..n |->
                    Tabulate([j \in 1..n |->
                                 SortCompare(records[i], records[j], column,
                                             direction, zone)], n)], n)

\* c, the comparisons of the positions P, come from a consistent comparator
\* (ECMA-262, Array.prototype.sort): =, < and > are transitive and agree
\* when the arguments are exchanged
ConsistentComparator(c, P) ==
    /\ \A i \in P : c[i][i] = 0
    /\ \A i, j \in P :
          /\ c[i][j] = 0 => c[j][i] = 0
          /\ c[i][j] < 0 => c[j][i] > 0
          /\ c[i][j] > 0 => c[j][i] < 0
    /\ \A i, j, k \in P :
          /\ (c[i][j] = 0 /\ c[j][k] = 0) => c[i][k] = 0
          /\ (c[i][j] < 0 /\ c[j][k] < 0) => c[i][k] < 0
          /\ (c[i][j] > 0 /\ c[j][k] > 0) => c[i][k] > 0

\* the stable sort of the records under the consistent comparisons c: a
\* record goes behind those that compare smaller and those that compare
\* equal and come earlier
StableSort(records, c) ==
    LET place == [i \in DOMAIN records |->
                    1 + Cardinality({j \in DOMAIN records :
                                        c[j][i] < 0 \/ (c[j][i] = 0 /\ j < i)})]
    IN  [n \in DOMAIN records |->
            records[CHOOSE i \in DOMAIN records : place[i] = n]]

\* the ways of rearranging positions 1..n
Rearrangements(n) ==
    {f \in [1..n -> 1..n] : \A i, j \in 1..n : f[i] = f[j] => i = j}

\* the arrays [...trackings].sort(comparator) can give: the stable sort when
\* the comparator is consistent, otherwise the order is implementation-defined
sortedCopies(records, column, direction, zone) ==
    LET c == comparisons(records, column, direction, zone)
    IN  IF ConsistentComparator(c, DOMAIN records)
        THEN {StableSort(records, c)}
        ELSE {[n \in DOMAIN records |-> records[f[n]]] :
                 f \in Rearrangements(Len(records))}

\* sortTrackings(trackings, column, direction): the arrays it can return
sortTrackings(records, column, direction, zone) ==
    IF column = null \/ direction = null
    THEN {records}
    ELSE sortedCopies(records, column, direction, zone)

\* handleSort going from descending back to ascending
handleSortTwoState(column, currentColumn, currentDirection) ==
    IF currentColumn = column
    THEN IF currentDirection = "asc"
         THEN [sortColumn |-> currentColumn, sortDirection |-> "desc"]
         ELSE [sortColumn |-> currentColumn, sortDirection |-> "asc"]
    ELSE [sortColumn |-> column, sortDirection |-> "asc"]

\* handleSort taking the direction along to another column
handleSortKeepingDirection(column, currentColumn, currentDirection) ==
    IF currentColumn = column
    THEN IF currentDirection = "asc"
         THEN [sortColumn |-> currentColumn, sortDirection |-> "desc"]
         ELSE IF currentDirection = "desc"
              THEN [sortColumn |-> null, sortDirection |-> null]
              ELSE [sortColumn |-> currentColumn, sortDirection |-> "asc"]
    ELSE [sortColumn |-> column,
          sortDirection |-> IF currentDirection = "desc" THEN "desc" ELSE "asc"]

\* handleSort without setSortColumn(null) after descending
handleSortColumnLeft(column, currentColumn, currentDirection) ==
    IF currentColumn = column
    THEN IF currentDirection = "asc"
         THEN [sortColumn |-> currentColumn, sortDirection |-> "desc"]
         ELSE IF currentDirection = "desc"
              THEN [sortColumn |-> currentColumn, sortDirection |-> null]
              ELSE [sortColumn |-> currentColumn, sortDirection |-> "asc"]
    ELSE [sortColumn |-> column, sortDirection |-> "asc"]

\* handleSort(column) in the state (sortColumn, sortDirection): the new state
handleSort(column, currentColumn, currentDirection) ==
    IF currentColumn = column
    THEN IF currentDirection = "asc"
         THEN [sortColumn |-> currentColumn, sortDirection |-> "desc"]
         ELSE IF currentDirection = "desc"
              THEN [sortColumn |-> null, sortDirection |-> null]
              ELSE [sortColumn |-> currentColumn, sortDirection |-> "asc"]
    ELSE [sortColumn |-> column, sortDirection |-> "asc"]


\* ---- the inputs of sortTrackings ----
SortRows ==
    { [ order_number |-> <<"A", "1">>, tracking_number |-> <<"T", "1">>,
        carrier |-> <<"U", "P", "S">>,
        estimated_delivery |-> <<"2", "0", "0", "0", "-", "0", "4", "-", "0", "5">>,
        ship_date |-> <<"2", "0", "0", "0", "-", "0", "3", "-", "0", "1", "T", "0", "9", ":", "0", "0">> ],
      [ order_number |-> <<"a", "1">>, tracking_number |-> <<"t", "1">>,
        carrier |-> <<"u", "p", "s">>,
        estimated_delivery |-> <<"s", "o", "o", "n">>,
        ship_date |-> <<"2", "0", "0", "0", "-", "0", "3", "-", "0", "1">> ],
      [ tracking_number |-> <<"U", "2">>, po_number |-> <<"P", "1">>,
        from_company |-> <<"A", "c", "m", "e">>,
        estimated_delivery |-> <<"2", "0", "0", "0", "-", "0", "2", "-", "0", "1">>,
        ship_date |-> <<"1", "9", "6", "9", "-", "1", "2", "-", "3", "0", "T", "2", "3", ":", "0", "0">> ],
      [ order_number |-> <<"B", "2">>, tracking_number |-> <<"T", "1">>,
        po_number |-> <<"P", "1">>, carrier |-> <<"U", "P", "S">>,
        recipient |-> <<"E", "r", "i", "e", ",", " ", "P", "A">>,
        email_date |-> <<"T", "B", "D">> ] }

\* the records handed to sortTrackings: those of a load of some primary rows
SortInputs ==
    { reconcile(orders, <<>>, LoadClock) : orders \in RowLists(SortRows, MaxSortRows) }

TimeZones == {-300, 60}

\* the sort states handleSort can lead to
SortStates ==
    {[sortColumn |-> null, sortDirection |-> null]}
    \cup [sortColumn : SortColumns, sortDirection : {"asc", "desc"}]

InitSort ==
    /\ pc = "sort"
    /\ timeZone \in TimeZones
    /\ filteredTrackings \in SortInputs
    /\ \E state \in SortStates :
          sortColumn = state.sortColumn /\ sortDirection = state.sortDirection
    /\ sortedTrackings = <<>>
    /\ cycleColumn = null /\ cycleClicks = 0 /\ cycleFrom = <<>>
    /\ trackings = <<>> /\ searchTerm = <<>> /\ statusFilter = <<>>
    /\ HeaderIdle /\ StatusIdle /\ DestinationIdle /\ LoadIdle
    /\ ItemsIdle /\ AppIdle /\ PageIdle

\* sortTrackings(filteredTrackings, sortColumn, sortDirection) of a render
SortTrackings ==
    /\ pc = "sort"
    /\ sortedTrackings' \in sortTrackings(filteredTrackings, sortColumn,
                                          sortDirection, timeZone)
    /\ pc' = "sorted"
    /\ UNCHANGED <<timeZone, sortColumn, sortDirection, cycleColumn, cycleClicks,
                   cycleFrom,
                   headerVars, statusVars, destinationVars,
                   loadVars, filterVars, itemVars, appVars, pageVars>>

NextSort == SortTrackings

SpecSort == InitSort /\ [][NextSort]_vars

\* ---- clicks on the column headers ----
\* the rows with a date of delivery
CycleRows ==
    {row \in SortRows : getTime(Get(row, "estimated_delivery"), 0) # NaN}

CycleInputs ==
    { reconcile(orders, <<>>, LoadClock) : orders \in RowLists(CycleRows, MaxCycleRows) }

\* the view as first rendered: unsorted
InitCycle ==
    /\ pc = "view"
    /\ timeZone \in TimeZones
    /\ filteredTrackings \in CycleInputs
    /\ sortColumn = null /\ sortDirection = null
    /\ sortedTrackings \in sortTrackings(filteredTrackings, null, null, timeZone)
    /\ cycleColumn = null /\ cycleClicks = 0 /\ cycleFrom = <<>>
    /\ trackings = <<>> /\ searchTerm = <<>> /\ statusFilter = <<>>
    /\ HeaderIdle /\ StatusIdle /\ DestinationIdle /\ LoadIdle
    /\ ItemsIdle /\ AppIdle /\ PageIdle

\* a click on a column header: handleSort(column) and the render that
\* follows it; cycleClicks counts the successive calls on one column that
\* began in the unsorted state, cycleFrom is the state the call was made in
HandleSort(column) ==
    /\ pc = "view"
    /\ LET next == handleSort(column, sortColumn, sortDirection)
       IN  /\ sortColumn' = next.sortColumn
           /\ sortDirection' = next.sortDirection
           /\ sortedTrackings' \in sortTrackings(filteredTrackings, next.sortColumn,
                                                 next.sortDirection, timeZone)
    /\ cycleColumn' = column
    /\ cycleFrom' = [sortColumn |-> sortColumn, sortDirection |-> sortDirection]
    /\ cycleClicks' =
          IF sortColumn = null /\ sortDirection = null THEN 1
          ELSE IF cycleClicks \in {1, 2} /\ column = cycleColumn
               THEN cycleClicks + 1
               ELSE 0
    /\ UNCHANGED <<pc, timeZone, headerVars, statusVars, destinationVars,
                   loadVars, filterVars, itemVars, appVars, pageVars>>

NextCycle == \E column \in SortColumns : HandleSort(column)

SpecCycle == InitCycle /\ [][NextCycle]_vars


\* ---- what the sorted view is checked against ----
\* C12: from the unsorted state, the first call of handleSort on a column
\* gives ascending on it, the second call on it descending, the third the
\* unsorted state again, in which the rows shown are the filtered records in
\* their own order.
C12_TriStateCycle ==
    /\ cycleClicks = 1 => (sortColumn = cycleColumn /\ sortDirection = "asc")
    /\ cycleClicks = 2 => (sortColumn = cycleColumn /\ sortDirection = "desc")
    /\ cycleClicks = 3 =>
          /\ sortColumn = null /\ sortDirection = null
          /\ sortedTrackings = filteredTrackings

\* three clicks on Tracking Number over two records that the ascending
\* sort had exchanged
C12_Witness ==
    /\ cycleClicks = 3 /\ cycleColumn = "tracking_number"
    /\ Len(filteredTrackings) = 2
    /\ localeCompare(filteredTrackings[1].tracking_number,
                     filteredTrackings[2].tracking_number) > 0
    /\ sortedTrackings = filteredTrackings

\* C13: sortTrackings is stable: the output is a rearrangement of the input
\* in which two records that the comparator finds equal keep their input
\* order (so an input whose records are all equal comes back unchanged).
C13_SortStable ==
    (pc = "sorted" /\ sortColumn # null) =>
        /\ Len(sortedTrackings) = Len(filteredTrackings)
        /\ \E f \in Rearrangements(Len(filteredTrackings)) :
              /\ \A i \in DOMAIN filteredTrackings :
                    sortedTrackings[f[i]] = filteredTrackings[i]
              /\ \A i, j \in DOMAIN filteredTrackings :
                    (i < j /\ SortCompare(filteredTrackings[i], filteredTrackings[j],
                                          sortColumn, sortDirection, timeZone) = 0)
                        => f[i] < f[j]

\* the date text of a record in a date column
DateTextOf(record, column) ==
    IF column = "ship_date" THEN record.last_updated_at
    ELSE record.estimated_delivery

\* the text is empty or is no date
Unparseable(text) == text = <<>> \/ getTime(text, 0) = NaN

\* C14: in an ascending sort by a date column every record whose date is
\* empty or unparseable has the sort value 0 and stands before every record
\* whose date is parseable.
C14_UnparseableFirst ==
    (pc = "sorted" /\ sortColumn \in {"ship_date", "estimated_delivery"}
        /\ sortDirection = "asc") =>
        /\ \A p \in DOMAIN sortedTrackings :
              Unparseable(DateTextOf(sortedTrackings[p], sortColumn)) =>
                  sortValue(sortedTrackings[p], sortColumn, timeZone).value = <<0>>
        /\ \A p, q \in DOMAIN sortedTrackings :
              (/\ Unparseable(DateTextOf(sortedTrackings[p], sortColumn))
               /\ ~Unparseable(DateTextOf(sortedTrackings[q], sortColumn)))
                  => p < q


\* ---- failures of a load ----
\* a fetched file without rows
EmptyFile ==
    [ok |-> TRUE, statusText |-> "OK", malformed |-> FALSE,
     parse |-> "complete", rows |-> <<>>]

C17_WitnessPrimary ==
    /\ pc = "loaded"
    /\ ~ordersResponse.ok /\ additionalResponse.ok
    /\ Len(additionalResponse.rows) = 2
    /\ ~loaded.ok

C18_ParseErrorFatal ==
    (pc = "loaded" /\ (ordersResponse.malformed \/ additionalResponse.malformed))
        => ~loaded.ok


(***************************************************************************)
(* Item grouping: CSVService.loadPOItems and the loadPOItems of the App    *)
(***************************************************************************)
\* the POItem built from a row; quantity (row.quantity || 0) is the text of
\* the row or the number 0, a number being held with its decimal text
itemOf(row) ==
    [ po_number |-> Get(row, "po_number"),
      item_name |-> Get(row, "item_name"),
      part_number |-> Get(row, "part_number"),
      description |-> Get(row, "description"),
      color |-> Get(row, "color"),
      quantity |-> IF Get(row, "quantity") # <<>>
                   THEN [number |-> FALSE, text |-> Get(row, "quantity")]
                   ELSE [number |-> TRUE, text |-> Decimal(0)] ]

\* the key of a PO number taken as it is written
normalizedPOAsWritten(poNumber) == poNumber

\* const normalizedPO = poNumber.toLowerCase()
normalizedPO(poNumber) == toLowerCase(poNumber)

RECURSIVE itemsMapOf(_, _)
\* itemsMap after the first n rows of itemsData.forEach
itemsMapOf(itemsData, n) ==
    IF n = 0 THEN <<>>
    ELSE LET before == itemsMapOf(itemsData, n - 1)
             row == itemsData[n]
             poNumber == Get(row, "po_number")
         IN  IF poNumber = <<>> THEN before
             ELSE LET key == normalizedPO(poNumber)
                      list == IF key \in DOMAIN before THEN before[key] ELSE <<>>
                  IN  MapSet(before, key, Append(list, itemOf(row)))

\* loadPOItems without its handlers: a failure of the reader goes outward
loadPOItemsUncaught(response) ==
    LET items == loadCSVFile(poItemsCsvPath, response)
    IN  IF items.resolved
        THEN [resolved |-> TRUE,
              value |-> itemsMapOf(items.data, Len(items.data))]
        ELSE [resolved |-> FALSE, message |-> items.message]

\* csvService.loadPOItems(): what its promise settles with
loadPOItems(response) ==
    LET items == loadCSVFile(poItemsCsvPath, response)
        \* .catch(() => []) on the promise of the reader
        itemsData == IF items.resolved THEN items.data ELSE <<>>
    IN  [resolved |-> TRUE, value |-> itemsMapOf(itemsData, Len(itemsData))]

\* ---- the items file ----
ItemRows ==
    { [ po_number |-> <<"P", "1">>, item_name |-> <<"B", "o", "l", "t">>,
        quantity |-> <<"2">> ],
      [ po_number |-> <<"p", "1">>, item_name |-> <<"N", "u", "t">>,
        part_number |-> <<"N", "7">> ],
      [ po_number |-> <<"Q", "2">>, item_name |-> <<"B", "o", "l", "t">>,
        color |-> <<"r", "e", "d">>, quantity |-> <<"0">> ],
      [ item_name |-> <<"C", "a", "p">>, description |-> <<"n", "o", " ", "P", "O">> ],
      [ po_number |-> <<>>, item_name |-> <<"P", "i", "n">> ] }

InitItems ==
    /\ pc = "mounted"
    /\ itemsResponse \in Responses(ItemRows, MaxItemRows)
    /\ itemsLoaded = <<>>
    /\ poItemsMap = <<>>
    /\ HeaderIdle /\ StatusIdle /\ DestinationIdle /\ LoadIdle /\ FilterIdle
    /\ SortIdle /\ AppIdle /\ PageIdle

\* loadPOItems of the App: setPoItemsMap with what csvService.loadPOItems()
\* resolves with, nothing but a log entry when it rejects
LoadPOItems ==
    /\ pc = "mounted"
    /\ itemsLoaded' = loadPOItems(itemsResponse)
    /\ poItemsMap' = IF itemsLoaded'.resolved THEN itemsLoaded'.value ELSE poItemsMap
    /\ pc' = "items"
    /\ UNCHANGED <<itemsResponse, headerVars, statusVars, destinationVars,
                   loadVars, filterVars, sortVars, appVars, pageVars>>

NextItems == LoadPOItems

SpecItems == InitItems /\ [][NextItems]_vars

\* ---- what the items map is checked against ----
\* the rows the reader handed over
ItemsRead == IF itemsResponse.ok /\ itemsResponse.parse = "complete"
             THEN itemsResponse.rows ELSE <<>>

\* positions of the rows whose PO number is the key in some letter case
RowsOfKey(key) ==
    {i \in DOMAIN ItemsRead :
        /\ Get(ItemsRead[i], "po_number") # <<>>
        /\ toLowerCase(Get(ItemsRead[i], "po_number")) = key}

\* the list holds the items of the rows at the positions, in their order
HoldsRows(list, positions) ==
    /\ Len(list) = Len(positions)
    /\ \A n \in DOMAIN positions :
          LET row == ItemsRead[positions[n]]
          IN  /\ list[n].po_number = row.po_number
              /\ list[n].item_name = Get(row, "item_name")
              /\ list[n].part_number = Get(row, "part_number")
              /\ list[n].description = Get(row, "description")
              /\ list[n].color = Get(row, "color")

\* C15: the map has one list for each lower-cased PO number of the file, and
\* the list holds the items of all rows with this PO number in any letter
\* case, in the order of the rows; rows without PO number are in no list.
C15_ItemsGrouped ==
    pc = "items" =>
        LET keys == {toLowerCase(Get(ItemsRead[i], "po_number")) :
                        i \in {j \in DOMAIN ItemsRead :
                                  Get(ItemsRead[j], "po_number") # <<>>}}
        IN  /\ DOMAIN poItemsMap = keys
            /\ \A key \in keys :
                  HoldsRows(poItemsMap[key], Ascending(RowsOfKey(key)))

\* of a file of three rows, the rows written p1 and P1 share the list p1
C15_Witness ==
    /\ pc = "items"
    /\ <<"p", "1">> \in DOMAIN poItemsMap
    /\ Len(poItemsMap[<<"p", "1">>]) = 2
    /\ poItemsMap[<<"p", "1">>][1].po_number = <<"p", "1">>
    /\ poItemsMap[<<"p", "1">>][2].po_number = <<"P", "1">>
    /\ Len(itemsResponse.rows) = 3

\* the reader of the items file has rejected
ReaderFailed == ~itemsResponse.ok \/ itemsResponse.parse = "error"

\* C19: loadPOItems resolves with a map whatever the reader did, with the
\* empty map when the reader failed, and the App holds this map.
C19_ItemsNeverFail ==
    pc = "items" =>
        /\ itemsLoaded.resolved
        /\ ReaderFailed => itemsLoaded.value = <<>>
        /\ poItemsMap = itemsLoaded.value

\* the items file is malformed, Papa.parse has called error, and the App
\* holds the empty map
C19_Witness ==
    /\ pc = "items"
    /\ itemsResponse.ok /\ itemsResponse.parse = "error"
    /\ itemsLoaded.resolved /\ poItemsMap = <<>>


(***************************************************************************)
(* The loadTrackings of the App (App.tsx): its calls run interleaved, each *)
(* from its start to its await and from there to its end.  A view is the   *)
(* state [trackings, loading, error] of the App; error is null (<<>>) or   *)
(* the message.                                                            *)
(***************************************************************************)
\* setLoading(true); setError(null)
loadTrackingsStarted(view) ==
    [trackings |-> view.trackings, loading |-> TRUE, error |-> <<>>]

\* setTrackings with the records of the load put behind those shown
setTrackingsMerging(shown, data) == shown \o data

\* setTrackings(data): the records of the load take the place of those shown
setTrackings(shown, data) == data

\* the end of loadTrackings with the records shown dropped in the handler of
\* a failure
loadTrackingsSettledClearing(view, result) ==
    IF result.ok
    THEN [trackings |-> setTrackings(view.trackings, result.data),
          loading |-> FALSE, error |-> view.error]
    ELSE [trackings |-> <<>>, loading |-> FALSE,
          error |-> Or(result.message, <<"Failed to load tracking data from CSV">>)]

\* the end of loadTrackings without its finally: a failure leaves loading as
\* it is
loadTrackingsSettledNoFinally(view, result) ==
    IF result.ok
    THEN [trackings |-> setTrackings(view.trackings, result.data),
          loading |-> FALSE, error |-> view.error]
    ELSE [trackings |-> view.trackings, loading |-> view.loading,
          error |-> Or(result.message, <<"Failed to load tracking data from CSV">>)]

\* loadTrackings from its await to its end: setTrackings(data), or
\* setError(err.message || ...) in the catch; setLoading(false) in finally
loadTrackingsSettled(view, result) ==
    IF result.ok
    THEN [trackings |-> setTrackings(view.trackings, result.data),
          loading |-> FALSE, error |-> view.error]
    ELSE [trackings |-> view.trackings, loading |-> FALSE,
          error |-> Or(result.message, <<"Failed to load tracking data from CSV">>)]

\* ---- the files the loads of the App fetch ----
AppPrimaryRows ==
    { [ order_number |-> <<"A", "1">>, tracking_number |-> <<"T", "1">> ],
      [ tracking_number |-> <<"U", "2">>, po_number |-> <<"P", "1">> ] }

AppSupplementalRows ==
    { [ order_number |-> <<"a", "1">>, notes |-> <<"r", "u", "s", "h">> ] }

AppItemRows ==
    { [ po_number |-> <<"P", "1">>, item_name |-> <<"B", "o", "l", "t">> ] }

View == [trackings |-> trackings, loading |-> loading, error |-> error]

InitApp ==
    /\ pc = "app"
    /\ clock = LoadClock
    /\ trackings = <<>>
    /\ loading = FALSE /\ error = <<>>
    /\ requested = 0 /\ inFlight = {}
    /\ shownAtStart = <<>> /\ settled = <<>>
    /\ written = <<>> /\ estimatedDelivery = <<>> /\ tag = <<>>
    /\ searchTerm = <<>> /\ statusFilter = <<>> /\ filteredTrackings = <<>>
    /\ itemsInFlight = 0
    /\ HeaderIdle /\ DestinationIdle /\ LoadIdle /\ SortIdle /\ ItemsIdle
    /\ PageIdle

\* a call of loadTrackings up to its await
StartLoad ==
    /\ requested' = requested + 1
    /\ inFlight' = inFlight \cup {requested + 1}
    /\ shownAtStart' = Append(shownAtStart, trackings)
    /\ LET view == loadTrackingsStarted(View)
       IN  /\ trackings' = view.trackings
           /\ loading' = view.loading
           /\ error' = view.error
    /\ UNCHANGED <<pc, clock, written, estimatedDelivery, tag, settled,
                   searchTerm, statusFilter, filteredTrackings,
                   itemsResponse, itemsLoaded,
                   headerVars, destinationVars, loadVars, sortVars, pageVars>>

\* the effect of a mount calls loadTrackings and loadPOItems; the mounts of
\* the App come before any response
MountEffect ==
    /\ pc = "app"
    /\ requested < MaxMounts /\ requested < MaxLoads
    /\ settled = <<>> /\ itemsInFlight = requested
    /\ StartLoad
    /\ itemsInFlight' = itemsInFlight + 1
    /\ UNCHANGED poItemsMap

\* a click on Refresh Data of the mounted App, disabled while loading
RefreshClick ==
    /\ pc = "app"
    /\ requested > 0
    /\ ~loading
    /\ requested < MaxLoads
    /\ StartLoad
    /\ UNCHANGED <<itemsInFlight, poItemsMap>>

\* csvService.loadTrackings() of a call settles, on the files its two
\* fetches brought, and the call runs to its end
SettleLoad(call) ==
    /\ pc = "app"
    /\ call \in inFlight
    /\ \E primaryFile \in Responses(AppPrimaryRows, 1),
          additionalFile \in Responses(AppSupplementalRows, 1) :
          LET result == loadTrackings(primaryFile, additionalFile, clock)
              view == loadTrackingsSettled(View, result)
          IN  /\ trackings' = view.trackings
              /\ loading' = view.loading
              /\ error' = view.error
              /\ settled' = Append(settled, [call |-> call] @@ result)
    /\ inFlight' = inFlight \ {call}
    /\ UNCHANGED <<pc, clock, written, estimatedDelivery, tag, requested,
                   shownAtStart, searchTerm, statusFilter, filteredTrackings,
                   itemsInFlight,
                   headerVars, destinationVars, loadVars, sortVars, itemVars,
                   pageVars>>

\* csvService.loadPOItems() of a call of the App's loadPOItems settles and
\* the call runs to its end
SettleItems ==
    /\ pc = "app"
    /\ itemsInFlight > 0
    /\ \E itemsFile \in Responses(AppItemRows, 1) :
          LET result == loadPOItems(itemsFile)
          IN  poItemsMap' = IF result.resolved THEN result.value ELSE poItemsMap
    /\ itemsInFlight' = itemsInFlight - 1
    /\ UNCHANGED <<pc, clock, written, estimatedDelivery, tag, trackings,
                   loading, error, requested, inFlight, shownAtStart, settled,
                   searchTerm, statusFilter, filteredTrackings,
                   itemsResponse, itemsLoaded,
                   headerVars, destinationVars, loadVars, sortVars, pageVars>>

NextApp ==
    \/ MountEffect
    \/ RefreshClick
    \/ \E call \in 1..MaxLoads : SettleLoad(call)
    \/ SettleItems

SpecApp == InitApp /\ [][NextApp]_vars

\* the loads of the App when every fetch comes to an end: the promise of
\* each pending call settles
SpecAppLive ==
    /\ SpecApp
    /\ \A call \in 1..MaxLoads : WF_vars(SettleLoad(call))


\* ---- the loads that have ended ----
LastSettled == settled[Len(settled)]

Fulfilled == {n \in DOMAIN settled : settled[n].ok}

LastFulfilled == CHOOSE n \in Fulfilled : \A m \in Fulfilled : m <= n

\* a step in which a call of loadTrackings ends
Settles == Len(settled') = Len(settled) + 1

C20_LastResolvedWins ==
    IF Fulfilled = {}
    THEN trackings = <<>>
    ELSE trackings = settled[LastFulfilled].data

\* two loads in flight together; the one started first ended last, with
\* other records, and its records are shown
C20_Witness ==
    /\ Len(settled) = 2
    /\ settled[1].call = 2 /\ settled[2].call = 1
    /\ settled[1].ok /\ settled[2].ok
    /\ settled[1].data # settled[2].data
    /\ settled[1].data # <<>>
    /\ inFlight = {}
    /\ trackings = settled[2].data


C30_LoadFinishes ==
    \A call \in 1..MaxLoads :
        (call \in inFlight) ~>
            (/\ call \notin inFlight
             /\ settled # <<>> /\ LastSettled.call = call
             /\ ~loading)

\* a load that failed has ended and Refresh Data is enabled again
C30_Witness ==
    /\ settled # <<>>
    /\ ~LastSettled.ok
    /\ LastSettled.call \notin inFlight
    /\ ~loading


\* ---- the merge, the lookup and the records returned, row by row ----
\* C22: the keys of a returned record are the named base fields and the keys
\* of its matched supplemental row that are not named base fields and have a
\* non-empty value there; each of these holds the supplemental value as it
\* is.
C22_ExtensionFields ==
    LoadSucceeded =>
        LET lookup == Lookup
        IN  \A i \in KeptRows :
                LET matched == FirstHit(i, lookup)
                    record == RecordOf(i)
                    taken == {k \in DOMAIN matched :
                                 k \notin BaseFields /\ matched[k] # <<>>}
                IN  /\ DOMAIN record = BaseFields \cup taken
                    /\ \A k \in taken : record[k] = matched[k]

\* a record whose matched row has a value under a named base field, an empty
\* value under another key and a value that was copied
C22_Witness ==
    /\ LoadSucceeded
    /\ \E i \in KeptRows :
          LET matched == FirstHit(i, Lookup)
          IN  /\ \E k \in DOMAIN matched : k \in BaseFields /\ matched[k] # <<>>
              /\ \E k \in DOMAIN matched : k \notin BaseFields /\ matched[k] = <<>>
              /\ \E k \in DOMAIN RecordOf(i) \ BaseFields :
                    RecordOf(i)[k] = matched[k]

\* the key a supplemental row is registered under: the first non-empty of its
\* order_number, order_id, tracking_number and po_number, lower-cased; <<>>
\* when it has none
RegisteredKey(row) ==
    IF Get(row, "order_number") # <<>> THEN toLowerCase(Get(row, "order_number"))
    ELSE IF Get(row, "order_id") # <<>> THEN toLowerCase(Get(row, "order_id"))
    ELSE IF Get(row, "tracking_number") # <<>>
         THEN toLowerCase(Get(row, "tracking_number"))
    ELSE IF Get(row, "po_number") # <<>> THEN toLowerCase(Get(row, "po_number"))
    ELSE <<>>

\* positions of the supplemental rows registered under a key
RowsUnder(key) ==
    {j \in DOMAIN AdditionalRows : RegisteredKey(AdditionalRows[j]) = key}

LastOf(positions) == CHOOSE j \in positions : \A m \in positions : m <= j

\* C23: the keys of the lookup are the registered keys of the supplemental
\* rows that have one, and the lookup returns for a key the last row
\* registered under it in source order; a row with none of the four fields
\* has no entry.
C23_LookupKeys ==
    LoadSucceeded =>
        LET lookup == Lookup
        IN  /\ DOMAIN lookup =
                  {RegisteredKey(AdditionalRows[j]) : j \in DOMAIN AdditionalRows}
                      \ {<<>>}
            /\ \A key \in DOMAIN lookup :
                  lookup[key] = AdditionalRows[LastOf(RowsUnder(key))]

\* two different supplemental rows with one key: the lookup returns the
\* second
C23_Witness ==
    /\ LoadSucceeded
    /\ Len(AdditionalRows) = 2
    /\ AdditionalRows[1] # AdditionalRows[2]
    /\ RegisteredKey(AdditionalRows[1]) = RegisteredKey(AdditionalRows[2])
    /\ Get(AdditionalRows[1], "order_number") # Get(AdditionalRows[2], "order_number")
    /\ Lookup[RegisteredKey(AdditionalRows[1])] = AdditionalRows[2]

\* C24: the records returned are one for each primary row with a non-blank
\* tracking number, in primary order, each with the base fields of its row,
\* whatever the supplemental file holds.
C24_OneRecordPerRow ==
    LoadSucceeded =>
        /\ Len(loaded.data) = Cardinality(KeptRows)
        /\ \A i \in KeptRows :
              [k \in BaseFields |-> RecordOf(i)[k]]
                  = baseTrackingOf(OrderRows[i], i, clock)

\* the first primary row has a blank tracking number and the second is
\* returned, with two supplemental rows of which it matches none by key
C24_Witness ==
    /\ LoadSucceeded
    /\ Len(OrderRows) = 2 /\ KeptRows = {2}
    /\ Len(AdditionalRows) = 2
    /\ Len(loaded.data) = 1
    /\ DOMAIN Lookup # {}
    /\ {OrderKey(2), TrackingKey(2), PoKey(2)} \cap DOMAIN Lookup = {}

\* the position of the supplemental row the primary row at position i finds
\* by key, 0 when it finds none
KeyHit(i) ==
    IF OrderKey(i) \in DOMAIN Lookup THEN LastOf(RowsUnder(OrderKey(i)))
    ELSE IF TrackingKey(i) \in DOMAIN Lookup THEN LastOf(RowsUnder(TrackingKey(i)))
    ELSE IF PoKey(i) \in DOMAIN Lookup THEN LastOf(RowsUnder(PoKey(i)))
    ELSE 0

\* C29: no supplemental row gives its fields to one returned record by key
\* match and to another by the positional fallback.
C29_RowMergedOnce ==
    LoadSucceeded =>
        ~ \E byKey \in KeptRows, byPosition \in KeptRows :
              /\ byKey # byPosition
              /\ KeyHit(byKey) = byPosition
              /\ KeyHit(byPosition) = 0
              /\ ContributionOf(AdditionalRows[byPosition]) # <<>>
              /\ ExtensionOf(RecordOf(byKey))
                    = ContributionOf(AdditionalRows[byPosition])
              /\ ExtensionOf(RecordOf(byPosition))
                    = ContributionOf(AdditionalRows[byPosition])


\* ---- the sort state after calls of handleSort ----
\* C25: a call of handleSort on a column other than the sort column it was
\* made in gives that column ascending, whatever the column and direction
\* before.
C25_OtherColumnAscending ==
    (cycleFrom # <<>> /\ cycleColumn # cycleFrom.sortColumn)
        => (sortColumn = cycleColumn /\ sortDirection = "asc")

\* a call on another column in a descending sort
C25_Witness ==
    /\ cycleFrom # <<>>
    /\ cycleFrom.sortColumn # null /\ cycleFrom.sortDirection = "desc"
    /\ cycleColumn # cycleFrom.sortColumn
    /\ sortColumn = cycleColumn /\ sortDirection = "asc"

\* C26: after any calls of handleSort, the sort column is null exactly when
\* the sort direction is null.
C26_ColumnAndDirection == (sortColumn = null) <=> (sortDirection = null)

\* the call in a descending sort on its column: column and direction are
\* both null after it
C26_Witness ==
    /\ cycleFrom # <<>>
    /\ cycleFrom.sortDirection = "desc" /\ cycleFrom.sortColumn = cycleColumn
    /\ sortColumn = null /\ sortDirection = null


(***************************************************************************)
(* The two record pages (App.tsx): the records of the page shown           *)
(***************************************************************************)
\* Sidebar: the ids of the menu items
Pages == {"tracking", "order-history", "analytics"}

\* t.tag?.toLowerCase() === 'delivered'
isDelivered(tracking) == toLowerCase(tracking.tag) = Delivered

\* trackingsToShow with nothing taken off the tracking page
trackingsOfPageAllTracked(records, page) ==
    IF page = "order-history"
    THEN Filter(records, {i \in DOMAIN records : isDelivered(records[i])})
    ELSE records

\* trackingsToShow of a render: the records of the page
trackingsOfPage(records, page) ==
    IF page = "tracking"
    THEN Filter(records, {i \in DOMAIN records : ~isDelivered(records[i])})
    ELSE IF page = "order-history"
         THEN Filter(records, {i \in DOMAIN records : isDelivered(records[i])})
         ELSE records

\* the App as first rendered with loaded records: the tracking page
InitPages ==
    /\ pc = "page"
    /\ trackings \in LoadedRecordSets
    /\ searchTerm = <<>>
    /\ statusFilter \in StatusSets
    /\ activePage = "tracking"
    /\ trackingsToShow = trackingsOfPage(trackings, activePage)
    /\ filteredTrackings = filterTrackings(trackingsToShow, searchTerm, statusFilter)
    /\ allItems = <<>> /\ itemSearchColumn = "all" /\ filteredItems = <<>>
    /\ HeaderIdle /\ StatusIdle /\ DestinationIdle /\ LoadIdle
    /\ SortIdle /\ ItemsIdle /\ AppIdle

\* a click in the Sidebar: setActivePage(page), the effect that clears the
\* status filter on the order history, and the render
Navigate(page) ==
    /\ pc = "page"
    /\ activePage' = page
    /\ statusFilter' = IF page = "order-history" THEN <<>> ELSE statusFilter
    /\ trackingsToShow' = trackingsOfPage(trackings, page)
    /\ filteredTrackings' = filterTrackings(trackingsToShow', searchTerm, statusFilter')
    /\ UNCHANGED <<pc, trackings, searchTerm, allItems, itemSearchColumn,
                   filteredItems, headerVars, statusVars, destinationVars,
                   loadVars, sortVars, itemVars, appVars>>

NextPages == \E page \in Pages : Navigate(page)

SpecPages == InitPages /\ [][NextPages]_vars

\* the positions of the loaded records that a page holds
OnPage(page) ==
    {i \in DOMAIN trackings :
        \E n \in DOMAIN trackingsOfPage(trackings, page) :
            trackingsOfPage(trackings, page)[n] = trackings[i]}

\* C27: the tracking page holds the loaded records whose tag is not delivered
\* and the order history those whose tag is delivered, each in loaded order,
\* so every loaded record is on exactly one of the two pages.
C27_PagesPartition ==
    /\ activePage = "tracking" =>
          trackingsToShow =
              Filter(trackings, {i \in DOMAIN trackings : trackings[i].tag # Delivered})
    /\ activePage = "order-history" =>
          trackingsToShow =
              Filter(trackings, {i \in DOMAIN trackings : trackings[i].tag = Delivered})
    /\ OnPage("tracking") \cap OnPage("order-history") = {}
    /\ OnPage("tracking") \cup OnPage("order-history") = DOMAIN trackings
    /\ Len(trackingsOfPage(trackings, "tracking"))
          + Len(trackingsOfPage(trackings, "order-history")) = Len(trackings)

\* the order history of two loaded records, one delivered and one on its way
C27_Witness ==
    /\ activePage = "order-history"
    /\ Len(trackings) = 2
    /\ trackings[1].tag # Delivered /\ trackings[2].tag = Delivered
    /\ trackingsToShow = <<trackings[2]>>


(***************************************************************************)
(* The item search: filterItems (App.tsx)                                  *)
(***************************************************************************)
ItemSearchColumns ==
    {"all", "item_name", "part_number", "description", "color", "quantity",
     "po_number"}

\* String(item.quantity)
quantityString(quantity) == quantity.text

\* item.quantity || '': the number 0 is falsy
quantityOrEmpty(quantity) ==
    IF quantity.number /\ quantity.text = Decimal(0) THEN <<>> ELSE quantity.text

\* fieldValue of the switch over the selected column
fieldValue(item, column) ==
    CASE column = "item_name" -> item.item_name
      [] column = "part_number" -> item.part_number
      [] column = "description" -> item.description
      [] column = "color" -> item.color
      [] column = "quantity" -> quantityOrEmpty(item.quantity)
      [] column = "po_number" -> item.po_number
      [] OTHER -> <<>>

\* searchableFields of the column 'all': the six fields, String(quantity)
\* among them, without the empty ones, in lower case
searchableItemFields(item) ==
    {toLowerCase(f) :
        f \in {item.item_name, item.part_number, item.description, item.color,
               quantityString(item.quantity), item.po_number} \ {<<>>}}

filterItems(items, search, column) ==
    IF trim(search) = <<>> THEN items
    ELSE LET searchLower == trim(toLowerCase(search))
         IN  Filter(items,
                    {i \in DOMAIN items :
                        IF column = "all"
                        THEN \E field \in searchableItemFields(items[i]) :
                                includes(field, searchLower)
                        ELSE includes(toLowerCase(fieldValue(items[i], column)),
                                      searchLower)})

\* ---- the inputs of filterItems ----
\* the items of the rows of the items file that have a PO number
SearchItems == {itemOf(row) : row \in {r \in ItemRows : Get(r, "po_number") # <<>>}}

SearchTexts ==
    { <<>>, <<" ">>, <<"0">>, <<"2">>, <<"B", "O", "L", "T">>, <<"p", "1">>,
      <<" ", "r", "e", "d">>, <<"N", "7">> }

InitItemSearch ==
    /\ pc = "items-query"
    /\ allItems \in RowLists(SearchItems, MaxSearchItems)
    /\ searchTerm \in SearchTexts
    /\ itemSearchColumn \in ItemSearchColumns
    /\ filteredItems = <<>>
    /\ activePage = "tracking" /\ trackingsToShow = <<>>
    /\ trackings = <<>> /\ statusFilter = <<>> /\ filteredTrackings = <<>>
    /\ HeaderIdle /\ StatusIdle /\ DestinationIdle /\ LoadIdle
    /\ SortIdle /\ ItemsIdle /\ AppIdle

\* filterItems(allItems, searchTerm, itemSearchColumn) of a render
FilterItems ==
    /\ pc = "items-query"
    /\ filteredItems' = filterItems(allItems, searchTerm, itemSearchColumn)
    /\ pc' = "items-filtered"
    /\ UNCHANGED <<allItems, searchTerm, itemSearchColumn, activePage,
                   trackingsToShow, trackings, statusFilter, filteredTrackings,
                   headerVars, statusVars, destinationVars, loadVars,
                   sortVars, itemVars, appVars>>

NextItemSearch == FilterItems

SpecItemSearch == InitItemSearch /\ [][NextItemSearch]_vars

\* the positions of the items that filterItems keeps for a column
KeptFor(column) ==
    {i \in DOMAIN allItems :
        filterItems(<<allItems[i]>>, searchTerm, column) # <<>>}

\* C28: with column 'all', filterItems returns the items that it returns for
\* at least one of the six columns with the same text, an item with the
\* default quantity 0 among them.
C28_AllIsUnionOfColumns ==
    (pc = "items-filtered" /\ itemSearchColumn = "all") =>
        filteredItems =
            Filter(allItems,
                   UNION {KeptFor(column) : column \in ItemSearchColumns \ {"all"}})

====
